---- MODULE Spec2Model ----
(***************************************************************************)
(* The Antigravity provider of litellm: the account pool with its          *)
(* rate-limit ledger and round-robin selector (account_manager.py), the    *)
(* account store and token/project caches (authenticator.py), the account  *)
(* endpoints of the proxy (endpoints.py) and the dispatcher                *)
(* (AntigravityConfig.completion in chat/transformation.py).               *)
(*                                                                         *)
(* Conventions.  Python's None is a sentinel of the value's own type:      *)
(* NoneStr for strings, NoneMs for an Optional[int], <<>> for an absent    *)
(* model id (the code tests `if model_id:`), NoAccount for an account.     *)
(* A dict key that may be absent holds Absent.  Emails and model ids are   *)
(* sequences of text fragments, so that the ledger key f"{email}:{model}"  *)
(* and the substring tests of the code are computed, not assumed.  Times   *)
(* are integer milliseconds.                                               *)
(***************************************************************************)
EXTENDS Integers, Sequences, FiniteSets, TLC

VARIABLES
    accounts,        \* Authenticator._accounts: the list of account dicts
    accounts_file,   \* the document last written to ANTIGRAVITY_ACCOUNTS_FILE
    token_cache,     \* TokenCache._cache: email -> [access_token, expires_at]
    project_cache,   \* ProjectCache._cache: email -> project_id
    current_index,   \* AccountManager._current_index
    rate_limits,     \* AccountManager._rate_limits: key -> [reset_time, model_id]
    now,             \* time.time() * 1000
    \* the dispatcher (one call of AntigravityConfig.completion and its re-entries)
    pc, model, depth, attempt, max_attempts, account, wait_ms, endpoint,
    last_error, outcome,
    \* history, read by the properties only
    selRet,          \* the last selector or store operation and what it returned
    lastMark,        \* key -> reset_time written by the most recent mark
    hist,            \* the dispatcher's record of the current dispatch
    \* threads that call clear_expired_limits on the shared AccountManager
    threads,         \* thread -> its position in the call and its local `expired`
    \* ANTIGRAVITY_ACCOUNTS_FILE as another process finds it
    disk,            \* how much of the document is in the file, and what a reader got
    \* the OAuth flows: _pending_oauth_states of the proxy and OAuthCallbackHandler
    oauth,
    \* a second dispatch running at the same time on the shared AccountManager
    peer,            \* its position, the account it selected and its model
    \* a call of one of the module-level functions of the provider
    call             \* the function, its argument and, once it has returned, its result

storeVars == <<accounts, accounts_file, token_cache, project_cache>>
mgrVars   == <<current_index, rate_limits, now>>
dispVars  == <<pc, model, depth, attempt, max_attempts, account, wait_ms,
               endpoint, last_error, outcome>>
histVars  == <<selRet, lastMark, hist>>
vars      == <<storeVars, mgrVars, dispVars, histVars, threads, disk, oauth, peer, call>>

---------------------------------------------------------------------------
(* Bounds of the model *)

MaxAccounts == 2
MaxTicks == 1
MaxMarks == 2
MaxDispatches == 2
MaxFaults == 3
RecursionLimit == 14
NumThreads == 2
MaxAuthStarts == 1
MaxResetParts == 3
MaxSchemaKeys == 2
MaxMessages == 3
MaxResponseParts == 2

(* Program constants (common_utils.py) *)

DEFAULT_COOLDOWN_MS == 60000
MAX_RETRIES == 5
MAX_WAIT_BEFORE_ERROR_MS == 120000
DEFAULT_PROJECT_ID == "rising-fact-p41fc"

ANTIGRAVITY_ENDPOINT_FALLBACKS ==
    << "https://daily-cloudcode-pa.sandbox.googleapis.com",
       "https://cloudcode-pa.googleapis.com" >>

(* Sentinels *)

NoneStr == "None"
NoneMs == 0 - 1
Absent == "absent"

(* The inputs the model draws from *)

EmailNames == << "a@x", "b@x", "c@x", "d@x" >>
Emails == { << EmailNames[i] >> : i \in 1..MaxAccounts }

M_GEMINI_3_PRO_HIGH == << "gemini-3-pro-high" >>
M_GEMINI_3_PRO_LOW == << "gemini-3-pro-low" >>
M_GEMINI_3_FLASH == << "gemini-3-flash" >>
M_GEMINI_25_FLASH == << "gemini-2.5-flash" >>
M_GEMINI_25_PRO == << "gemini-2.5-pro" >>
M_CLAUDE_OPUS_THINKING == << "claude-opus-4.5-thinking" >>
M_CLAUDE_SONNET == << "claude-sonnet-4.5" >>
M_CLAUDE_SONNET_THINKING == << "claude-sonnet-4.5", "-thinking" >>
M_UNLISTED == << "my-own-model" >>

ANTIGRAVITY_MODELS ==
    { M_CLAUDE_SONNET_THINKING, M_CLAUDE_OPUS_THINKING, M_CLAUDE_SONNET,
      M_GEMINI_3_FLASH, M_GEMINI_3_PRO_HIGH, M_GEMINI_3_PRO_LOW,
      M_GEMINI_25_FLASH, M_GEMINI_25_PRO }

MODEL_FALLBACK_MAP ==
    [ m \in ANTIGRAVITY_MODELS |->
        CASE m = M_GEMINI_3_PRO_HIGH -> M_CLAUDE_OPUS_THINKING
          [] m = M_GEMINI_3_PRO_LOW -> M_CLAUDE_SONNET
          [] m = M_GEMINI_3_FLASH -> M_CLAUDE_SONNET_THINKING
          [] m = M_GEMINI_25_FLASH -> M_CLAUDE_SONNET
          [] m = M_GEMINI_25_PRO -> M_CLAUDE_OPUS_THINKING
          [] m = M_CLAUDE_OPUS_THINKING -> M_GEMINI_3_PRO_HIGH
          [] m = M_CLAUDE_SONNET_THINKING -> M_GEMINI_3_FLASH
          [] m = M_CLAUDE_SONNET -> M_GEMINI_25_FLASH ]

get_fallback_model(m) ==
    IF m \in DOMAIN MODEL_FALLBACK_MAP THEN MODEL_FALLBACK_MAP[m] ELSE <<>>

\* model ids the manager operations are called with (<<>>: no model)
ManagerModels == { <<>>, M_GEMINI_3_PRO_HIGH }
\* model ids a dispatch is requested for
RequestModels == { M_GEMINI_3_PRO_HIGH, M_UNLISTED }
\* reset_ms arguments of mark_rate_limited
ResetChoices == { NoneMs, 0, 30000, 600000 }
\* the marks of the selector's specification: a short cooldown for the model,
\* a long one for the whole account
SelectorMarks == { << 30000, M_GEMINI_3_PRO_HIGH >>, << 600000, <<>> >> }
\* the marks of the sticky selection's specification: with the clock's step
\* they leave waits of 60000, 90000, 570000 and 600000 ms
StickyMarks == { << 90000, M_GEMINI_3_PRO_HIGH >>, << 600000, <<>> >> }
\* the marks and the model filters of get_min_wait_time_ms's specification:
\* two models of which one's id begins with the other's, and the whole account
MinWaitMarks ==
    { << 30000, M_CLAUDE_SONNET_THINKING >>, << 600000, M_CLAUDE_SONNET >>, << 90000, <<>> >> }
MinWaitModels == { M_CLAUDE_SONNET, M_CLAUDE_SONNET_THINKING }
\* how far the clock moves between two operations
TickChoices == { 30000 }

NoAccount ==
    [ email |-> <<>>, refresh_token |-> NoneStr, project_id |-> NoneStr,
      is_invalid |-> Absent, invalid_reason |-> Absent ]

NewAccount(email, refresh_token, project_id) ==
    [ email |-> email, refresh_token |-> refresh_token, project_id |-> project_id,
      is_invalid |-> Absent, invalid_reason |-> Absent ]

---------------------------------------------------------------------------
(* Sequence helpers *)

Contains(s, sub) ==
    \E i \in 0..(Len(s) - Len(sub)) : SubSeq(s, i + 1, i + Len(sub)) = sub

SetMin(S) == CHOOSE x \in S : \A y \in S : x <= y

Max2(a, b) == IF a >= b THEN a ELSE b

IndexOfEmail(accs, email) ==
    IF \E i \in 1..Len(accs) : accs[i].email = email
    THEN SetMin({ i \in 1..Len(accs) : accs[i].email = email })
    ELSE 0

RemoveKey(f, k) == [ x \in DOMAIN f \ {k} |-> f[x] ]

PutKey(f, k, v) == [ x \in DOMAIN f \cup {k} |-> IF x = k THEN v ELSE f[x] ]

---------------------------------------------------------------------------
(* account_manager.py: the rate-limit ledger *)

get_rate_limit_key(email, model_id) ==
    IF model_id # <<>> THEN email \o << ":" >> \o model_id ELSE email

is_account_rate_limited_ge(rl, acct, model_id, t) ==
    LET model_key == get_rate_limit_key(acct.email, model_id)
        global_key == get_rate_limit_key(acct.email, <<>>)
    IN  \/ model_key \in DOMAIN rl /\ rl[model_key].reset_time >= t
        \/ global_key \in DOMAIN rl /\ rl[global_key].reset_time >= t

is_account_rate_limited(rl, acct, model_id, t) ==
    LET model_key == get_rate_limit_key(acct.email, model_id)
        global_key == get_rate_limit_key(acct.email, <<>>)
    IN  \/ model_key \in DOMAIN rl /\ rl[model_key].reset_time > t
        \/ global_key \in DOMAIN rl /\ rl[global_key].reset_time > t

is_account_invalid(acct) == acct.is_invalid = "true"

get_available_accounts(accs, rl, model_id, t) ==
    { i \in 1..Len(accs) :
        ~is_account_rate_limited(rl, accs[i], model_id, t) /\ ~is_account_invalid(accs[i]) }

is_all_rate_limited(accs, rl, model_id, t) ==
    get_available_accounts(accs, rl, model_id, t) = {} /\ Len(accs) > 0

clear_expired_limits(rl, t) ==
    [ k \in { x \in DOMAIN rl : ~(rl[x].reset_time <= t) } |-> rl[k] ]

\* a mark under the account's own key, whatever the model
mark_rate_limited_account_wide(rl, email, reset_ms, model_id, t) ==
    LET cooldown == IF reset_ms = NoneMs \/ reset_ms = 0
                    THEN DEFAULT_COOLDOWN_MS ELSE reset_ms
    IN  PutKey(rl, email, [ reset_time |-> t + cooldown, model_id |-> model_id ])

mark_rate_limited(rl, email, reset_ms, model_id, t) ==
    LET key == get_rate_limit_key(email, model_id)
        \* `reset_ms or DEFAULT_COOLDOWN_MS`: None and 0 are both falsy
        cooldown == IF reset_ms = NoneMs \/ reset_ms = 0
                    THEN DEFAULT_COOLDOWN_MS ELSE reset_ms
    IN  PutKey(rl, key, [ reset_time |-> t + cooldown, model_id |-> model_id ])

mark_invalid(accs, email, reason) ==
    LET i == IndexOfEmail(accs, email)
    IN  IF i = 0 THEN accs
        ELSE [ accs EXCEPT ![i].is_invalid = "true", ![i].invalid_reason = reason ]

\* get_min_wait_time_ms counting an entry that resets now
get_min_wait_time_ms_ge(rl, model_id, t) ==
    LET scanned == { k \in DOMAIN rl :
                       ~( /\ model_id # <<>>
                          /\ ~Contains(k, << ":" >> \o model_id)
                          /\ Contains(k, << ":" >>) ) }
        waits == { rl[k].reset_time - t : k \in { x \in scanned : rl[x].reset_time >= t } }
    IN  IF waits = {} THEN 0 ELSE SetMin(waits)

\* get_min_wait_time_ms passing over the keys that hold no model
get_min_wait_time_ms_model_keys_only(rl, model_id, t) ==
    LET scanned == { k \in DOMAIN rl :
                       ~( /\ model_id # <<>>
                          /\ ~Contains(k, << ":" >> \o model_id) ) }
        waits == { rl[k].reset_time - t : k \in { x \in scanned : rl[x].reset_time > t } }
    IN  IF waits = {} THEN 0 ELSE SetMin(waits)

get_min_wait_time_ms(rl, model_id, t) ==
    LET scanned == { k \in DOMAIN rl :
                       ~( /\ model_id # <<>>
                          /\ ~Contains(k, << ":" >> \o model_id)
                          /\ Contains(k, << ":" >>) ) }
        waits == { rl[k].reset_time - t : k \in { x \in scanned : rl[x].reset_time > t } }
    IN  IF waits = {} THEN 0 ELSE SetMin(waits)

---------------------------------------------------------------------------
(* account_manager.py: the selector.  Each operator returns the account it  *)
(* selects (NoAccount for None) and the value it leaves in _current_index. *)

pick_next_ignoring_invalid(accs, rl, idx, model_id, t) ==
    LET n == Len(accs)
        ok(k) == ~is_account_rate_limited(rl, accs[((idx + k) % n) + 1], model_id, t)
        hits == { k \in 1..n : ok(k) }
    IN  IF n = 0 THEN [ account |-> NoAccount, index |-> idx ]
        ELSE IF hits = {} THEN [ account |-> NoAccount, index |-> idx ]
        ELSE [ account |-> accs[((idx + SetMin(hits)) % n) + 1],
               index |-> (idx + SetMin(hits)) % n ]

\* pick_next scanning from the head of the list instead of from the index
pick_next_from_head(accs, rl, idx, model_id, t) ==
    LET n == Len(accs)
        ok(k) == LET a == accs[k]
                 IN  ~is_account_rate_limited(rl, a, model_id, t) /\ ~is_account_invalid(a)
        hits == { k \in 1..n : ok(k) }
    IN  IF n = 0 THEN [ account |-> NoAccount, index |-> idx ]
        ELSE IF hits = {} THEN [ account |-> NoAccount, index |-> idx ]
        ELSE [ account |-> accs[SetMin(hits)], index |-> SetMin(hits) - 1 ]

\* pick_next keeping the last account the scan finds instead of the first
pick_next_last_hit(accs, rl, idx, model_id, t) ==
    LET n == Len(accs)
        ok(k) == LET a == accs[((idx + k) % n) + 1]
                 IN  ~is_account_rate_limited(rl, a, model_id, t) /\ ~is_account_invalid(a)
        hits == { k \in 1..n : ok(k) }
        last == CHOOSE k \in hits : \A j \in hits : j <= k
    IN  IF n = 0 THEN [ account |-> NoAccount, index |-> idx ]
        ELSE IF hits = {} THEN [ account |-> NoAccount, index |-> idx ]
        ELSE [ account |-> accs[((idx + last) % n) + 1], index |-> (idx + last) % n ]

pick_next(accs, rl, idx, model_id, t) ==
    LET n == Len(accs)
        ok(k) == LET a == accs[((idx + k) % n) + 1]
                 IN  ~is_account_rate_limited(rl, a, model_id, t) /\ ~is_account_invalid(a)
        hits == { k \in 1..n : ok(k) }
    IN  IF n = 0 THEN [ account |-> NoAccount, index |-> idx ]
        ELSE IF hits = {} THEN [ account |-> NoAccount, index |-> idx ]
        ELSE [ account |-> accs[((idx + SetMin(hits)) % n) + 1],
               index |-> (idx + SetMin(hits)) % n ]

get_current_sticky_account_unguarded(accs, rl, idx, model_id, t) ==
    LET n == Len(accs)
        a == IF idx < n THEN accs[idx + 1] ELSE NoAccount
    IN  IF n = 0 THEN [ account |-> NoAccount, index |-> idx ]
        ELSE IF idx >= n \/ is_account_rate_limited(rl, a, model_id, t) \/ is_account_invalid(a)
             THEN [ account |-> NoAccount, index |-> idx ]
             ELSE [ account |-> a, index |-> idx ]

get_current_sticky_account(accs, rl, idx, model_id, t) ==
    LET n == Len(accs)
        i == IF idx >= n THEN 0 ELSE idx
    IN  IF n = 0 THEN [ account |-> NoAccount, index |-> idx ]
        ELSE IF is_account_rate_limited(rl, accs[i + 1], model_id, t)
                \/ is_account_invalid(accs[i + 1])
             THEN [ account |-> NoAccount, index |-> i ]
             ELSE [ account |-> accs[i + 1], index |-> i ]

should_wait_for_current_account(accs, rl, idx, model_id, t) ==
    LET no == [ should_wait |-> FALSE, wait_ms |-> 0, account |-> NoAccount ]
    IN  IF Len(accs) = 0 \/ idx >= Len(accs) THEN no
        ELSE LET a == accs[idx + 1]
                 key == get_rate_limit_key(a.email, model_id)
                 global_key == get_rate_limit_key(a.email, <<>>)
                 w(k) == IF k \in DOMAIN rl /\ rl[k].reset_time > t
                         THEN rl[k].reset_time - t ELSE 0
                 wait == Max2(Max2(0, w(key)), w(global_key))
             IN  IF is_account_invalid(a) THEN no
                 ELSE IF wait > 0 /\ wait <= MAX_WAIT_BEFORE_ERROR_MS
                      THEN [ should_wait |-> TRUE, wait_ms |-> wait, account |-> a ]
                      ELSE no

\* pick_sticky_account that sleeps only for waits below half the maximum
pick_sticky_account_below_half(accs, rl, idx, model_id, t) ==
    LET sticky == get_current_sticky_account(accs, rl, idx, model_id, t)
        sw == should_wait_for_current_account(accs, rl, sticky.index, model_id, t)
        nxt == pick_next(accs, rl, sticky.index, model_id, t)
    IN  IF sticky.account # NoAccount
        THEN [ account |-> sticky.account, wait_ms |-> 0, index |-> sticky.index ]
        ELSE IF sw.should_wait /\ sw.wait_ms < MAX_WAIT_BEFORE_ERROR_MS \div 2
             THEN [ account |-> NoAccount, wait_ms |-> sw.wait_ms, index |-> sticky.index ]
             ELSE [ account |-> nxt.account, wait_ms |-> 0, index |-> nxt.index ]

\* pick_sticky_account that never moves on to another account
pick_sticky_account_no_rotation(accs, rl, idx, model_id, t) ==
    LET sticky == get_current_sticky_account(accs, rl, idx, model_id, t)
        sw == should_wait_for_current_account(accs, rl, sticky.index, model_id, t)
    IN  IF sticky.account # NoAccount
        THEN [ account |-> sticky.account, wait_ms |-> 0, index |-> sticky.index ]
        ELSE IF sw.should_wait /\ sw.wait_ms <= MAX_WAIT_BEFORE_ERROR_MS \div 2
             THEN [ account |-> NoAccount, wait_ms |-> sw.wait_ms, index |-> sticky.index ]
             ELSE [ account |-> NoAccount, wait_ms |-> 0, index |-> sticky.index ]

pick_sticky_account(accs, rl, idx, model_id, t) ==
    LET sticky == get_current_sticky_account(accs, rl, idx, model_id, t)
        sw == should_wait_for_current_account(accs, rl, sticky.index, model_id, t)
        nxt == pick_next(accs, rl, sticky.index, model_id, t)
    IN  IF sticky.account # NoAccount
        THEN [ account |-> sticky.account, wait_ms |-> 0, index |-> sticky.index ]
        ELSE IF sw.should_wait /\ sw.wait_ms <= MAX_WAIT_BEFORE_ERROR_MS \div 2
             THEN [ account |-> NoAccount, wait_ms |-> sw.wait_ms, index |-> sticky.index ]
             ELSE [ account |-> nxt.account, wait_ms |-> 0, index |-> nxt.index ]

---------------------------------------------------------------------------
(* authenticator.py: the token cache, the project cache, the account store *)

TokenCache_get(tc, email, t) ==
    IF email \in DOMAIN tc /\ tc[email].expires_at > t
    THEN tc[email].access_token ELSE NoneStr

\* TokenCache.set without the 60 s buffer
TokenCache_set_no_buffer(tc, email, access_token, expires_in, t) ==
    PutKey(tc, email, [ access_token |-> access_token,
                        expires_at |-> t + expires_in * 1000 ])

\* expires_at is kept in milliseconds: (time.time() + expires_in - 60) * 1000
TokenCache_set(tc, email, access_token, expires_in, t) ==
    PutKey(tc, email, [ access_token |-> access_token,
                        expires_at |-> t + (expires_in - 60) * 1000 ])

\* TokenCache.clear dropping every entry whatever the email
TokenCache_clear_all(tc, email) == <<>>

\* `if email:` pops the entry of the email; without an email the cache is emptied
TokenCache_clear(tc, email) == IF email # <<>> THEN RemoveKey(tc, email) ELSE <<>>

ProjectCache_get(pcache, email) ==
    IF email \in DOMAIN pcache THEN pcache[email] ELSE NoneStr

ProjectCache_set(pcache, email, project_id) == PutKey(pcache, email, project_id)

ProjectCache_clear(pcache, email) == IF email # <<>> THEN RemoveKey(pcache, email) ELSE <<>>

\* json.dump({"accounts": self._accounts}): every key of every dict is written
save_accounts(accs) ==
    [ i \in 1..Len(accs) |->
        [ email |-> accs[i].email,
          refresh_token |-> accs[i].refresh_token,
          project_id |-> accs[i].project_id,
          is_invalid |-> accs[i].is_invalid,
          invalid_reason |-> accs[i].invalid_reason ] ]

\* an add that appends without looking for the email
upsert_account_append(accs, email, refresh_token, project_id) ==
    Append(accs, NewAccount(email, refresh_token, project_id))

\* the upsert of add_account_interactive
upsert_account(accs, email, refresh_token, project_id) ==
    LET i == IndexOfEmail(accs, email)
    IN  IF i # 0
        THEN [ accs EXCEPT ![i].refresh_token = refresh_token,
                           ![i].project_id = project_id ]
        ELSE Append(accs, NewAccount(email, refresh_token, project_id))

\* the upsert of the callback endpoint: it also pops is_invalid
upsert_account_callback(accs, email, refresh_token, project_id) ==
    LET i == IndexOfEmail(accs, email)
    IN  IF i # 0
        THEN [ accs EXCEPT ![i].refresh_token = refresh_token,
                           ![i].project_id = project_id,
                           ![i].is_invalid = Absent ]
        ELSE Append(accs, NewAccount(email, refresh_token, project_id))

\* a removal that drops the first account, whatever its email
remove_from_head(accs, email) == IF accs = <<>> THEN accs ELSE Tail(accs)

remove_from(accs, email) == SelectSeq(accs, LAMBDA a : a.email # email)

---------------------------------------------------------------------------
(* History *)

\* `from` is _current_index as the operation found it
Ret(op, acct, wait) ==
    [ op |-> op, account |-> acct, wait_ms |-> wait, from |-> current_index ]

NoGot == [ email |-> <<>>, token |-> NoneStr ]

\* the record of a TokenCache.set made now
TokenSet(email, access_token, expires_in) ==
    [ access_token |-> access_token, set_time |-> now, expires_in |-> expires_in ]

NoWait == [ email |-> <<>>, wake |-> 0 ]

NoSent ==
    [ account |-> <<>>, rate_limits |-> <<>>, invalid |-> <<>>, current_index |-> 0,
      now |-> 0, n5xx |-> 0, n401 |-> 0 ]

NoPrev ==
    [ email |-> <<>>, rate_limits |-> <<>>, invalid |-> <<>>, current_index |-> 0,
      sticky |-> FALSE ]

NoBearer == [ email |-> <<>>, serial |-> 0 ]

NoMinWait == [ model |-> <<>>, wait |-> 0 ]

NoHist ==
    [ dispatches |-> 0,      \* dispatches started
      ticks |-> 0,           \* clock steps taken between operations
      marks |-> 0,           \* direct calls of mark_rate_limited
      faults |-> 0,          \* answers other than success from Upstream and the token endpoint
      requested |-> <<>>,    \* the model the caller asked for
      passes |-> <<>>,       \* model -> passes of the select-and-send loop
      unusable |-> FALSE,    \* the pool was empty or all invalid at the start
      limited |-> <<>>,      \* account a 429 has just limited while another was free
      failed |-> <<>>,       \* account whose token acquisition raised InvalidCredentialsError
      failed_keys |-> {},    \* ledger keys present when it did
      tokens |-> <<>>,       \* email -> the latest TokenCache.set not cleared since
      got |-> NoGot,         \* the TokenCache.get just made and what it returned
      run |-> 0,             \* consecutive pick_next calls made with nothing in between
      run_model |-> <<>>,    \* the model they were made for
      visited |-> {},        \* the accounts they returned
      lost |-> {},           \* keys a sweep deleted while their reset_time was in the future
      waited |-> NoWait,     \* the current account this pass sleeps for, and until when
      sent |-> NoSent,       \* the state in which this pass began to POST; its 5xx and 401 answers
      prev |-> NoPrev,       \* the successful dispatch just before this one
      min_wait |-> NoMinWait,   \* the get_min_wait_time_ms just made and what it returned
      acquired |-> 0,        \* access tokens the dispatcher got from the token endpoint
      serials |-> <<>>,      \* email -> which of them the token cache holds for it
      bearer |-> NoBearer,   \* the token in the request_headers of this pass
      rejected |-> {},       \* the tokens Upstream answered 401 to in this dispatch
      resent |-> FALSE ]     \* a request of this dispatch carried one of them

\* a reader that has not read the file yet
NotLoaded == [ seen |-> "none", accounts |-> <<>> ]

\* no save is under way
NoSaver == [ op |-> "none", email |-> <<>> ]

Threads == 1..NumThreads

\* OAuthCallbackHandler's class attributes as start_oauth_callback_server resets them
NoListener ==
    [ pc |-> "off", expected_state |-> NoneStr, authorization_code |-> NoneStr,
      received_state |-> NoneStr, error |-> NoneStr,
      param_state |-> NoneStr,   \* the state parameter of the request being handled
      returned |-> NoneStr,      \* the code start_oauth_callback_server returned
      message |-> NoneStr ]      \* the message of the error add_account_interactive ended with

\* no callback has been handled yet
NoCallback ==
    [ flow |-> "none", state |-> NoneStr, code |-> NoneStr, error |-> NoneStr,
      known |-> FALSE, exchanged |-> FALSE, changed |-> FALSE ]

NoOAuth ==
    [ pending |-> <<>>,          \* _pending_oauth_states: state -> verifier
      listener |-> NoListener,   \* the callback server of add_account_interactive
      listens |-> 0,             \* callback servers started
      issued |-> {},             \* every state get_authorization_url has returned
      consumed |-> {},           \* states a callback has been accepted for
      last |-> NoCallback ]      \* the callback handled last and what it did

\* no function is being called
NoCall == [ fn |-> "none", arg |-> <<>>, returned |-> FALSE, ret |-> <<>> ]

\* the second dispatch before it has called pick_sticky_account
NoPeer == [ pc |-> "idle", account |-> <<>>, model |-> <<>> ]

IdleThread == [ pc |-> "idle", expired |-> {} ]

---------------------------------------------------------------------------
(* Initial states: a store as _load_accounts leaves it (accounts.json      *)
(* holds email, refresh_token and project_id), empty caches and ledger.    *)

StoreOf(f) ==
    [ i \in 1..Len(f) |-> NewAccount(<< EmailNames[i] >>, f[i][1], f[i][2]) ]

\* stores of 0..MaxAccounts accounts with the given refresh tokens and project ids
Stores(refresh_tokens, project_ids) ==
    { StoreOf(f) : f \in UNION { [ 1..n -> refresh_tokens \X project_ids ] : n \in 0..MaxAccounts } }

InitProgram(stores) ==
    /\ accounts \in stores
    /\ accounts_file = save_accounts(accounts)
    /\ token_cache = <<>>
    /\ project_cache = <<>>
    /\ current_index = 0
    /\ rate_limits = <<>>
    /\ now = 0
    /\ pc = "idle"
    /\ model = <<>>
    /\ depth = 0
    /\ attempt = 0
    /\ max_attempts = 0
    /\ account = <<>>
    /\ wait_ms = 0
    /\ endpoint = 0
    /\ last_error = [ kind |-> "none", reset_ms |-> NoneMs, cls |-> "none", text |-> {} ]
    /\ outcome = [ kind |-> "none", model |-> <<>>, email |-> <<>> ]
    /\ selRet = Ret("none", NoAccount, 0)
    /\ lastMark = <<>>
    /\ hist = NoHist
    /\ threads = [ w \in Threads |-> IdleThread ]
    /\ disk = [ state |-> "complete", saver |-> NoSaver, loaded |-> NotLoaded ]
    /\ oauth = NoOAuth
    /\ peer = NoPeer

\* the program with no module-level function under call
InitWith(stores) == InitProgram(stores) /\ call = NoCall

---------------------------------------------------------------------------
(* The manager's operations, called one at a time *)

Tick ==
    /\ hist.ticks < MaxTicks
    /\ \E d \in TickChoices : now' = now + d
    /\ hist' = [ hist EXCEPT !.ticks = @ + 1, !.got = NoGot, !.min_wait = NoMinWait ]
    /\ UNCHANGED << call, peer, oauth, threads, disk, storeVars, current_index, rate_limits, dispVars, selRet, lastMark >>

MarkRateLimited(email, reset_ms, model_id) ==
    /\ hist.marks < MaxMarks
    /\ rate_limits' = mark_rate_limited(rate_limits, email, reset_ms, model_id, now)
    /\ lastMark' = PutKey(lastMark, get_rate_limit_key(email, model_id),
                          rate_limits'[get_rate_limit_key(email, model_id)].reset_time)
    /\ hist' = [ hist EXCEPT !.marks = @ + 1, !.min_wait = NoMinWait ]
    /\ UNCHANGED << call, peer, oauth, threads, disk, storeVars, current_index, now, dispVars, selRet >>

ClearExpiredLimits ==
    /\ rate_limits' = clear_expired_limits(rate_limits, now)
    /\ UNCHANGED << call, peer, oauth, threads, disk, storeVars, current_index, now, dispVars, histVars >>

ResetAllRateLimits ==
    /\ rate_limits' = <<>>
    /\ UNCHANGED << call, peer, oauth, threads, disk, storeVars, current_index, now, dispVars, histVars >>

MarkInvalid(email) ==
    /\ accounts' = mark_invalid(accounts, email, "Auth error")
    /\ selRet' = Ret("mark_invalid", NoAccount, 0)
    /\ UNCHANGED << call, peer, oauth, threads, disk, accounts_file, token_cache, project_cache, mgrVars, dispVars,
                    lastMark, hist >>

GetMinWaitTimeMs(model_id) ==
    /\ hist' = [ hist EXCEPT !.min_wait =
                   [ model |-> model_id,
                     wait |-> get_min_wait_time_ms(rate_limits, model_id, now) ] ]
    /\ UNCHANGED << call, peer, oauth, threads, disk, storeVars, mgrVars, dispVars, selRet, lastMark >>

PickNext(model_id) ==
    LET r == pick_next(accounts, rate_limits, current_index, model_id, now)
    IN  /\ current_index' = r.index
        /\ selRet' = Ret("pick_next", r.account, 0)
        /\ UNCHANGED << call, peer, oauth, threads, disk, storeVars, rate_limits, now, dispVars, lastMark, hist >>

\* one of a run of consecutive pick_next calls for the same model
PickNextInRun(model_id) ==
    LET r == pick_next(accounts, rate_limits, current_index, model_id, now)
    IN  /\ hist.run < Len(accounts)
        /\ hist.run > 0 => hist.run_model = model_id
        /\ current_index' = r.index
        /\ selRet' = Ret("pick_next", r.account, 0)
        /\ hist' = [ hist EXCEPT !.run = @ + 1, !.run_model = model_id,
                                 !.visited = @ \cup ({ r.account.email } \ { <<>> }) ]
        /\ UNCHANGED << call, peer, oauth, threads, disk, storeVars, rate_limits, now, dispVars, lastMark >>

GetCurrentStickyAccount(model_id) ==
    LET r == get_current_sticky_account(accounts, rate_limits, current_index, model_id, now)
    IN  /\ current_index' = r.index
        /\ selRet' = Ret("current_sticky", r.account, 0)
        /\ UNCHANGED << call, peer, oauth, threads, disk, storeVars, rate_limits, now, dispVars, lastMark, hist >>

PickStickyAccount(model_id) ==
    LET r == pick_sticky_account(accounts, rate_limits, current_index, model_id, now)
    IN  /\ current_index' = r.index
        /\ selRet' = Ret("pick_sticky", r.account, r.wait_ms)
        /\ UNCHANGED << call, peer, oauth, threads, disk, storeVars, rate_limits, now, dispVars, lastMark, hist >>

---------------------------------------------------------------------------
(* clear_expired_limits as threads run it on the shared manager: the scan   *)
(* that builds `expired`, then one `del` per key of it.  No lock is taken;  *)
(* a thread can be preempted between the scan and any of its deletions.    *)
(* mark_rate_limited writes its key with one dict store.                   *)

\* line 67-68: now and the list of expired keys
SweepScan(w) ==
    /\ threads[w].pc = "idle"
    /\ threads' = [ threads EXCEPT ![w] =
                      [ pc |-> "delete",
                        expired |-> { k \in DOMAIN rate_limits : rate_limits[k].reset_time <= now } ] ]
    /\ UNCHANGED << call, peer, oauth, storeVars, mgrVars, dispVars, histVars, disk >>

\* line 69-71: delete the next key of `expired`; `del` of a missing key raises KeyError
SweepDelete(w) ==
    /\ threads[w].pc = "delete"
    /\ IF threads[w].expired = {}
       THEN /\ threads' = [ threads EXCEPT ![w].pc = "done" ]
            /\ UNCHANGED << rate_limits, hist >>
       ELSE \E k \in threads[w].expired :
              IF k \in DOMAIN rate_limits
              THEN /\ rate_limits' = RemoveKey(rate_limits, k)
                   /\ threads' = [ threads EXCEPT ![w].expired = @ \ { k } ]
                   /\ hist' = [ hist EXCEPT !.lost =
                                  IF rate_limits[k].reset_time > now THEN @ \cup { k } ELSE @ ]
              ELSE /\ threads' = [ threads EXCEPT ![w].pc = "failed" ]
                   /\ UNCHANGED << rate_limits, hist >>
    /\ UNCHANGED << call, peer, oauth, storeVars, current_index, now, dispVars, selRet, lastMark, disk >>

---------------------------------------------------------------------------
(* The store's operations *)

\* what discover_project_id returns: a discovered id, or the default one
DiscoverResults == { "proj-1", DEFAULT_PROJECT_ID }

AddAccountInteractive(email, refresh_token, project_id) ==
    /\ accounts' = upsert_account(accounts, email, refresh_token, project_id)
    /\ accounts_file' = save_accounts(accounts')
    /\ token_cache' = TokenCache_set(token_cache, email, "at-1", 3600, now)
    /\ hist' = [ hist EXCEPT !.tokens = PutKey(@, email, TokenSet(email, "at-1", 3600)) ]
    /\ selRet' = Ret("add_account", NewAccount(email, refresh_token, project_id), 0)
    /\ UNCHANGED << call, peer, oauth, threads, disk, project_cache, mgrVars, dispVars, lastMark >>

AuthCallback(email, refresh_token, project_id) ==
    /\ accounts' = upsert_account_callback(accounts, email, refresh_token, project_id)
    /\ accounts_file' = save_accounts(accounts')
    /\ token_cache' = TokenCache_set(token_cache, email, "at-1", 3600, now)
    /\ hist' = [ hist EXCEPT !.tokens = PutKey(@, email, TokenSet(email, "at-1", 3600)) ]
    /\ selRet' = Ret("add_account", NewAccount(email, refresh_token, project_id), 0)
    /\ UNCHANGED << call, peer, oauth, threads, disk, project_cache, mgrVars, dispVars, lastMark >>

RemoveAccount(email) ==
    /\ accounts' = remove_from(accounts, email)
    /\ IF Len(accounts') < Len(accounts)
       THEN /\ accounts_file' = save_accounts(accounts')
            /\ token_cache' = TokenCache_clear(token_cache, email)
            /\ project_cache' = ProjectCache_clear(project_cache, email)
            /\ hist' = [ hist EXCEPT !.tokens = RemoveKey(@, email) ]
       ELSE UNCHANGED << accounts_file, token_cache, project_cache, hist >>
    \* True, or False and the endpoint's 404
    /\ selRet' = Ret(IF Len(accounts') < Len(accounts)
                     THEN "remove_account" ELSE "remove_account_not_found", NoAccount, 0)
    /\ UNCHANGED << call, peer, oauth, threads, disk, mgrVars, dispVars, lastMark >>

\* get_project_for_account on the i-th stored account
GetProjectForAccount(i, discovered) ==
    LET email == accounts[i].email
    IN  /\ IF ProjectCache_get(project_cache, email) # NoneStr
           THEN UNCHANGED << accounts, accounts_file, project_cache >>
           ELSE IF accounts[i].project_id # NoneStr
           THEN /\ project_cache' = ProjectCache_set(project_cache, email, accounts[i].project_id)
                /\ UNCHANGED << accounts, accounts_file >>
           ELSE /\ project_cache' = ProjectCache_set(project_cache, email, discovered)
                /\ accounts' = [ accounts EXCEPT ![i].project_id = discovered ]
                /\ accounts_file' = save_accounts(accounts')
        /\ selRet' = Ret("get_project", NoAccount, 0)
        /\ UNCHANGED << call, peer, oauth, threads, disk, token_cache, mgrVars, dispVars, lastMark, hist >>

---------------------------------------------------------------------------
(* _save_accounts as a reader of the file can observe it: open(, "w")       *)
(* leaves the file empty, json.dump writes the document piece by piece,    *)
(* leaving the `with` block closes it.  accounts_file is the last document *)
(* written completely.                                                     *)

\* add_account_interactive up to the open() of _save_accounts
SaveOpenAfterAdd(email, refresh_token, project_id) ==
    /\ disk.state = "complete"
    /\ accounts' = upsert_account(accounts, email, refresh_token, project_id)
    /\ disk' = [ disk EXCEPT !.state = "empty", !.saver = [ op |-> "add", email |-> email ] ]
    /\ UNCHANGED << call, peer, oauth, accounts_file, token_cache, project_cache, mgrVars, dispVars,
                    histVars, threads >>

\* remove_account up to the open() of _save_accounts
SaveOpenAfterRemove(email) ==
    /\ disk.state = "complete"
    /\ Len(remove_from(accounts, email)) < Len(accounts)
    /\ accounts' = remove_from(accounts, email)
    /\ disk' = [ disk EXCEPT !.state = "empty", !.saver = [ op |-> "remove", email |-> email ] ]
    /\ UNCHANGED << call, peer, oauth, accounts_file, token_cache, project_cache, mgrVars, dispVars,
                    histVars, threads >>

\* json.dump has written part of the document
SaveWrite ==
    /\ disk.state = "empty"
    /\ disk' = [ disk EXCEPT !.state = "partial" ]
    /\ UNCHANGED << call, peer, oauth, storeVars, mgrVars, dispVars, histVars, threads >>

\* the file is closed with the whole document in it, and the caller goes
\* on: add_account_interactive caches the access token, remove_account
\* clears the caches of the email
SaveClose ==
    /\ disk.state \in { "empty", "partial" }
    /\ accounts_file' = save_accounts(accounts)
    /\ disk' = [ disk EXCEPT !.state = "complete", !.saver = NoSaver ]
    /\ IF disk.saver.op = "add"
       THEN /\ token_cache' = TokenCache_set(token_cache, disk.saver.email, "at-1", 3600, now)
            /\ hist' = [ hist EXCEPT !.tokens =
                           PutKey(@, disk.saver.email, TokenSet(disk.saver.email, "at-1", 3600)) ]
            /\ UNCHANGED project_cache
       ELSE /\ token_cache' = TokenCache_clear(token_cache, disk.saver.email)
            /\ project_cache' = ProjectCache_clear(project_cache, disk.saver.email)
            /\ hist' = [ hist EXCEPT !.tokens = RemoveKey(@, disk.saver.email) ]
    /\ UNCHANGED << call, peer, oauth, accounts, mgrVars, dispVars, selRet, lastMark, threads >>

\* _load_accounts of another process: a file that does not parse leaves it
\* with no accounts
LoadAccounts ==
    /\ disk' = [ disk EXCEPT !.loaded =
                   [ seen |-> IF disk.state = "complete" THEN "document" ELSE disk.state,
                     accounts |-> IF disk.state = "complete" THEN accounts_file ELSE <<>> ] ]
    /\ UNCHANGED << call, peer, oauth, storeVars, mgrVars, dispVars, histVars, threads >>

---------------------------------------------------------------------------
(* The OAuth flows.  endpoints.py keeps the states of the authorizations   *)
(* it started in _pending_oauth_states; add_account_interactive runs a     *)
(* callback server (OAuthCallbackHandler) that expects one state.          *)

\* secrets.token_hex(16): a state nobody has seen before
OAuthStatePool == { "st-1", "st-2", "st-3" }
\* the query parameters a callback can carry (NoneStr: the parameter is missing)
CallbackStates == OAuthStatePool \cup { NoneStr }
CallbackCodes == { "code-1", NoneStr }
CallbackErrors == { "access_denied", NoneStr }

\* generate_pkce: the verifier that belongs to the authorization of a state
Verifier(state) == << "verifier", state >>

\* what exchange_code, get_user_email and discover_project_id end with
ExchangeResults ==
    { [ ok |-> FALSE, email |-> <<>> ] } \cup { [ ok |-> TRUE, email |-> e ] : e \in Emails }

FreshStates == OAuthStatePool \ (oauth.issued \cup { oauth.listener.expected_state })

\* a lookup that leaves the state pending
pending_get(pending, state) ==
    [ found |-> state \in DOMAIN pending, rest |-> pending ]

\* endpoints.py line 114: _pending_oauth_states.pop(state, None)
pending_pop(pending, state) ==
    [ found |-> state \in DOMAIN pending, rest |-> RemoveKey(pending, state) ]

\* endpoints.py line 42-67: antigravity_auth_start
AuthStart ==
    /\ Cardinality(oauth.issued) < MaxAuthStarts
    /\ \E s \in FreshStates :
         oauth' = [ oauth EXCEPT !.pending = PutKey(@, s, Verifier(s)),
                                 !.issued = @ \cup { s } ]
    /\ UNCHANGED << call, peer, storeVars, mgrVars, dispVars, histVars, threads, disk >>

\* endpoints.py line 75-181: antigravity_auth_callback
CallbackEndpoint(code, state, error, exch) ==
    LET complete == error = NoneStr /\ code # NoneStr /\ state # NoneStr
        p == pending_pop(oauth.pending, state)
        accepted == complete /\ p.found
    IN  /\ IF accepted /\ exch.ok
           THEN /\ accounts' = upsert_account_callback(accounts, exch.email, "rt-2", "proj-1")
                /\ accounts_file' = save_accounts(accounts')
                /\ token_cache' = TokenCache_set(token_cache, exch.email, "at-1", 3600, now)
                /\ hist' = [ hist EXCEPT !.tokens =
                               PutKey(@, exch.email, TokenSet(exch.email, "at-1", 3600)) ]
                /\ selRet' = Ret("add_account", NewAccount(exch.email, "rt-2", "proj-1"), 0)
           ELSE UNCHANGED << accounts, accounts_file, token_cache, hist, selRet >>
        /\ oauth' = [ oauth EXCEPT
                        !.pending = IF complete THEN p.rest ELSE @,
                        !.consumed = IF accepted THEN @ \cup { state } ELSE @,
                        !.last = [ flow |-> "endpoint", state |-> state, code |-> code,
                                   error |-> error,
                                   known |-> state \in oauth.issued \ oauth.consumed,
                                   exchanged |-> accepted,
                                   changed |-> \/ accounts' # accounts
                                               \/ accounts_file' # accounts_file
                                               \/ token_cache' # token_cache ] ]
        /\ UNCHANGED << call, peer, project_cache, mgrVars, dispVars, lastMark, threads, disk >>

\* authenticator.py line 333-338 and 272-284: add_account_interactive gets a
\* state and starts the callback server
StartInteractive ==
    /\ oauth.listener.pc \in { "off", "returned", "raised" }
    /\ oauth.listens < MaxAuthStarts
    /\ \E s \in FreshStates :
         oauth' = [ oauth EXCEPT !.listener = [ NoListener EXCEPT !.pc = "serving",
                                                                 !.expected_state = s ],
                                 !.listens = @ + 1 ]
    /\ UNCHANGED << call, peer, storeVars, mgrVars, dispVars, histVars, threads, disk >>

\* authenticator.py line 219-238: do_GET up to the store of the code
ListenerGet(path_ok, code, state, error) ==
    /\ oauth.listener.pc = "serving"
    /\ oauth' = [ oauth EXCEPT !.listener =
                    IF ~path_ok THEN @
                    ELSE IF error # NoneStr THEN [ @ EXCEPT !.error = error, !.pc = "served" ]
                    ELSE IF code = NoneStr
                    THEN [ @ EXCEPT !.error = "No authorization code", !.pc = "served" ]
                    ELSE [ @ EXCEPT !.authorization_code = code, !.param_state = state,
                                    !.pc = "handling" ] ]
    /\ UNCHANGED << call, peer, storeVars, mgrVars, dispVars, histVars, threads, disk >>

\* authenticator.py line 239: do_GET stores the state it received
ListenerSetState ==
    /\ oauth.listener.pc = "handling"
    /\ oauth' = [ oauth EXCEPT !.listener.received_state = oauth.listener.param_state,
                               !.listener.pc = "served" ]
    /\ UNCHANGED << call, peer, storeVars, mgrVars, dispVars, histVars, threads, disk >>

\* authenticator.py line 286-302 and 339-365: thread.join returns, because the
\* serving thread has ended or because timeout_seconds have passed; the checks
\* of start_oauth_callback_server and the rest of add_account_interactive
ListenerJoin(exch) ==
    LET l == oauth.listener
        returns == l.error = NoneStr /\ l.received_state = l.expected_state
        \* line 290-300 and 339-345, in the order of the code
        message == IF l.error # NoneStr THEN "OAuth error"
                   ELSE IF l.received_state # l.expected_state
                   THEN "State mismatch - possible CSRF attack"
                   ELSE IF l.authorization_code = NoneStr THEN "OAuth callback timeout"
                   ELSE IF ~exch.ok THEN "exchange_code failed"
                   ELSE NoneStr
    IN  /\ l.pc \in { "serving", "handling", "served" }
        /\ IF returns /\ l.authorization_code # NoneStr /\ exch.ok
           THEN /\ accounts' = upsert_account(accounts, exch.email, "rt-2", "proj-1")
                /\ accounts_file' = save_accounts(accounts')
                /\ token_cache' = TokenCache_set(token_cache, exch.email, "at-1", 3600, now)
                /\ hist' = [ hist EXCEPT !.tokens =
                               PutKey(@, exch.email, TokenSet(exch.email, "at-1", 3600)) ]
                /\ selRet' = Ret("add_account", NewAccount(exch.email, "rt-2", "proj-1"), 0)
           ELSE UNCHANGED << accounts, accounts_file, token_cache, hist, selRet >>
        /\ oauth' = [ oauth EXCEPT
                        !.listener.pc = IF returns THEN "returned" ELSE "raised",
                        !.listener.returned = IF returns THEN l.authorization_code ELSE NoneStr,
                        !.listener.message = message,
                        !.last = [ flow |-> "listener", state |-> l.received_state,
                                   code |-> l.authorization_code, error |-> l.error,
                                   known |-> l.received_state = l.expected_state,
                                   exchanged |-> returns /\ l.authorization_code # NoneStr,
                                   changed |-> \/ accounts' # accounts
                                               \/ accounts_file' # accounts_file
                                               \/ token_cache' # token_cache ] ]
        /\ UNCHANGED << call, peer, project_cache, mgrVars, dispVars, lastMark, threads, disk >>

---------------------------------------------------------------------------
(* The token cache's operations *)

AccessTokens == { "at-1", "at-2" }
\* expires_in of a token, in seconds
ExpiresInChoices == { 30, 90, 3600 }

TokenCacheSet(email, access_token, expires_in) ==
    /\ token_cache' = TokenCache_set(token_cache, email, access_token, expires_in, now)
    /\ hist' = [ hist EXCEPT !.tokens = PutKey(@, email, TokenSet(email, access_token, expires_in)),
                             !.got = NoGot ]
    /\ UNCHANGED << call, peer, oauth, threads, disk, accounts, accounts_file, project_cache, mgrVars, dispVars, selRet, lastMark >>

TokenCacheClear(email) ==
    /\ token_cache' = TokenCache_clear(token_cache, email)
    /\ hist' = [ hist EXCEPT !.tokens = RemoveKey(@, email), !.got = NoGot ]
    /\ UNCHANGED << call, peer, oauth, threads, disk, accounts, accounts_file, project_cache, mgrVars, dispVars, selRet, lastMark >>

TokenCacheGet(email) ==
    /\ hist' = [ hist EXCEPT !.got = [ email |-> email,
                                       token |-> TokenCache_get(token_cache, email, now) ] ]
    /\ UNCHANGED << call, peer, oauth, threads, disk, storeVars, mgrVars, dispVars, selRet, lastMark >>

---------------------------------------------------------------------------
(* common_utils.py: classification of an exception by its text.  The text  *)
(* of an exception is the set of the fragments the classifiers look for    *)
(* that occur in str(e).lower().                                           *)

RateLimitFragments == { "429", "resource_exhausted", "quota_exhausted", "rate limit" }
AuthFragments == { "401", "unauthenticated", "authentication", "invalid_grant" }
ServerFragments == { "500", "503", "server error" }

is_rate_limit_error(text) == text \cap RateLimitFragments # {}

is_auth_error(text) == text \cap AuthFragments # {}

\* what Upstream answers to a generateContent POST
UpstreamResets == { NoneMs, 90000, 600000 }
UpstreamResponses ==
    { [ status |-> 200, reset_ms |-> NoneMs ], [ status |-> 401, reset_ms |-> NoneMs ],
      [ status |-> 503, reset_ms |-> NoneMs ], [ status |-> 400, reset_ms |-> NoneMs ] }
    \cup { [ status |-> 429, reset_ms |-> r ] : r \in UpstreamResets }

\* what the token endpoint answers to a refresh: a token, a non-2xx answer
\* with some body, or no answer at all
RefreshResults ==
    { [ kind |-> "ok", text |-> {} ], [ kind |-> "network", text |-> {} ] }
    \cup { [ kind |-> "rejected", text |-> b ] : b \in { { "invalid_grant" }, {} } }

---------------------------------------------------------------------------
(* chat/transformation.py: AntigravityConfig.completion, one step per      *)
(* stretch of code between two suspensions (a sleep or an HTTP request).   *)

NoError == [ kind |-> "none", reset_ms |-> NoneMs, cls |-> "none", text |-> {} ]

AcctOf(email) == accounts[IndexOfEmail(accounts, email)]

AllInvalid(accs) == \A i \in 1..Len(accs) : is_account_invalid(accs[i])

Finish(kind) ==
    /\ pc' = "done"
    /\ outcome' = [ kind |-> kind, model |-> model, email |-> account ]

Raise(cls, text) ==
    /\ pc' = "except"
    /\ last_error' = [ kind |-> "raised", reset_ms |-> NoneMs, cls |-> cls, text |-> text ]

StartDispatch(m) ==
    /\ pc \in { "idle", "done" }
    /\ hist.dispatches < MaxDispatches
    /\ pc' = "select"
    /\ model' = m
    /\ depth' = 0
    /\ attempt' = 0
    /\ max_attempts' = Max2(MAX_RETRIES, Len(accounts) + 1)
    /\ account' = <<>>
    /\ wait_ms' = 0
    /\ endpoint' = 0
    /\ last_error' = NoError
    /\ outcome' = [ kind |-> "none", model |-> <<>>, email |-> <<>> ]
    /\ hist' = [ hist EXCEPT !.dispatches = @ + 1, !.requested = m,
                             !.passes = << >>, !.unusable = AllInvalid(accounts),
                             !.failed = <<>>, !.failed_keys = {}, !.waited = NoWait,
                             !.sent = NoSent, !.bearer = NoBearer,
                             !.rejected = {}, !.resent = FALSE,
                             !.prev =
                                 IF pc = "done" /\ outcome.kind = "ok"
                                 THEN [ email |-> outcome.email, rate_limits |-> rate_limits,
                                        invalid |-> [ j \in 1..Len(accounts) |->
                                                        accounts[j].is_invalid ],
                                        current_index |-> current_index,
                                        sticky |->
                                            get_current_sticky_account(accounts, rate_limits,
                                                current_index, m, now).account # NoAccount ]
                                 ELSE NoPrev ]
    /\ UNCHANGED << call, peer, oauth, threads, disk, storeVars, mgrVars, selRet, lastMark >>

\* line 600-607: the loop head and pick_sticky_account
Select ==
    /\ pc = "select"
    /\ IF attempt >= max_attempts
       THEN /\ Finish("Max retries exceeded")
            /\ hist' = [ hist EXCEPT !.waited = NoWait, !.sent = NoSent ]
            /\ UNCHANGED << current_index, account, wait_ms, attempt, selRet >>
       ELSE LET r == pick_sticky_account(accounts, rate_limits, current_index, model, now)
            IN  /\ attempt' = attempt + 1
                /\ current_index' = r.index
                /\ selRet' = Ret("pick_sticky", r.account, r.wait_ms)
                /\ account' = r.account.email
                /\ wait_ms' = r.wait_ms
                /\ hist' = [ hist EXCEPT !.failed = <<>>, !.failed_keys = {},
                               !.sent = NoSent,
                               !.passes = PutKey(@, model,
                                   IF model \in DOMAIN @ THEN @[model] + 1 ELSE 1),
                               !.waited =
                                   IF r.account = NoAccount /\ r.wait_ms > 0
                                      /\ r.wait_ms <= MAX_WAIT_BEFORE_ERROR_MS
                                   THEN [ email |-> accounts[r.index + 1].email,
                                          wake |-> now + r.wait_ms ]
                                   ELSE NoWait ]
                /\ pc' = IF r.account = NoAccount /\ r.wait_ms > 0
                            /\ r.wait_ms <= MAX_WAIT_BEFORE_ERROR_MS
                         THEN "sleep_sticky" ELSE "check"
                /\ UNCHANGED outcome
    /\ UNCHANGED << call, peer, oauth, threads, disk, storeVars, rate_limits, now, model, depth, max_attempts, endpoint,
                    last_error, lastMark >>

\* the sticky wait followed by pick_next instead of the current account
SleepSticky_PickNext ==
    /\ pc = "sleep_sticky"
    /\ now' = now + wait_ms
    /\ rate_limits' = clear_expired_limits(rate_limits, now')
    /\ LET s == pick_next(accounts, rate_limits', current_index, model, now')
       IN  /\ current_index' = s.index
           /\ selRet' = Ret("current_sticky", s.account, 0)
           /\ account' = s.account.email
    /\ pc' = "check"
    /\ UNCHANGED << call, peer, oauth, threads, disk, storeVars, model, depth, attempt, max_attempts, wait_ms,
                    endpoint, last_error, outcome, lastMark, hist >>

\* line 605-607: sleep, sweep, retry the current account
SleepSticky ==
    /\ pc = "sleep_sticky"
    /\ now' = now + wait_ms
    /\ rate_limits' = clear_expired_limits(rate_limits, now')
    /\ LET s == get_current_sticky_account(accounts, rate_limits', current_index, model, now')
       IN  /\ current_index' = s.index
           /\ selRet' = Ret("current_sticky", s.account, 0)
           /\ account' = s.account.email
    /\ pc' = "check"
    /\ UNCHANGED << call, peer, oauth, threads, disk, storeVars, model, depth, attempt, max_attempts, wait_ms, endpoint,
                    last_error, outcome, lastMark, hist >>

\* CheckAccount with the wait compared against the cooldown constant
CheckAccount_CooldownThreshold ==
    /\ pc = "check"
    /\ IF account # <<>>
       THEN /\ pc' = "auth"
            /\ UNCHANGED << wait_ms, outcome >>
       ELSE IF is_all_rate_limited(accounts, rate_limits, model, now)
       THEN LET all_wait_ms == get_min_wait_time_ms(rate_limits, model, now)
            IN  IF all_wait_ms > DEFAULT_COOLDOWN_MS
                THEN /\ Finish("AntigravityQuotaExhaustedError")
                     /\ UNCHANGED wait_ms
                ELSE /\ pc' = "sleep_all"
                     /\ wait_ms' = all_wait_ms
                     /\ UNCHANGED outcome
       ELSE /\ pc' = "fallback"
            /\ UNCHANGED << wait_ms, outcome >>
    /\ hist' = [ hist EXCEPT !.limited = <<>> ]
    /\ UNCHANGED << call, peer, oauth, threads, disk, storeVars, mgrVars, model, depth, attempt, max_attempts, account,
                    endpoint, last_error, selRet, lastMark >>

\* line 609-617: no account, every account limited
CheckAccount ==
    /\ pc = "check"
    /\ IF account # <<>>
       THEN /\ pc' = "auth"
            /\ UNCHANGED << wait_ms, outcome >>
       ELSE IF is_all_rate_limited(accounts, rate_limits, model, now)
       THEN LET all_wait_ms == get_min_wait_time_ms(rate_limits, model, now)
            IN  IF all_wait_ms > MAX_WAIT_BEFORE_ERROR_MS
                THEN /\ Finish("AntigravityQuotaExhaustedError")
                     /\ UNCHANGED wait_ms
                ELSE /\ pc' = "sleep_all"
                     /\ wait_ms' = all_wait_ms
                     /\ UNCHANGED outcome
       ELSE /\ pc' = "fallback"
            /\ UNCHANGED << wait_ms, outcome >>
    /\ hist' = [ hist EXCEPT !.limited = <<>> ]
    /\ UNCHANGED << call, peer, oauth, threads, disk, storeVars, mgrVars, model, depth, attempt, max_attempts, account,
                    endpoint, last_error, selRet, lastMark >>

\* line 618-620: sleep, sweep, pick_next
SleepAll ==
    /\ pc = "sleep_all"
    /\ now' = now + wait_ms
    /\ rate_limits' = clear_expired_limits(rate_limits, now')
    /\ LET r == pick_next(accounts, rate_limits', current_index, model, now')
       IN  /\ current_index' = r.index
           /\ selRet' = Ret("pick_next", r.account, 0)
           /\ account' = r.account.email
           /\ pc' = IF r.account # NoAccount THEN "auth" ELSE "fallback"
    /\ UNCHANGED << call, peer, oauth, threads, disk, storeVars, model, depth, attempt, max_attempts, wait_ms, endpoint,
                    last_error, outcome, lastMark, hist >>

\* line 622-647: still no account.  The recursive call is in tail position
\* and outside the try block: its result and its exceptions are the caller's.
\* The interpreter ends a recursion of RecursionLimit frames with RecursionError.
Fallback ==
    /\ pc = "fallback"
    /\ LET fallback_model == get_fallback_model(model)
       IN  IF fallback_model # <<>>
           THEN IF depth + 1 >= RecursionLimit
                THEN /\ Finish("RecursionError")
                     /\ UNCHANGED << model, depth, attempt, max_attempts >>
                ELSE /\ model' = fallback_model
                     /\ depth' = depth + 1
                     /\ attempt' = 0
                     /\ max_attempts' = Max2(MAX_RETRIES, Len(accounts) + 1)
                     /\ pc' = "select"
                     /\ UNCHANGED outcome
           ELSE /\ Finish("AntigravityNoAccountsError")
                /\ UNCHANGED << model, depth, attempt, max_attempts >>
    /\ UNCHANGED << call, peer, oauth, threads, disk, storeVars, mgrVars, account, wait_ms, endpoint, last_error, histVars >>

\* line 650 and authenticator.py get_token_for_account
GetToken ==
    /\ pc = "auth"
    /\ IF TokenCache_get(token_cache, account, now) # NoneStr
       THEN /\ pc' = "project"
            /\ hist' = [ hist EXCEPT !.bearer =
                           [ email |-> account,
                             serial |-> IF account \in DOMAIN hist.serials
                                        THEN hist.serials[account] ELSE 0 ] ]
            /\ UNCHANGED << token_cache, last_error >>
       ELSE IF AcctOf(account).refresh_token = NoneStr
       THEN /\ Raise("AntigravityInvalidCredentialsError", {})
            /\ hist' = [ hist EXCEPT !.failed = account, !.failed_keys = DOMAIN rate_limits ]
            /\ UNCHANGED token_cache
       ELSE \E res \in { x \in RefreshResults : x.kind = "ok" \/ hist.faults < MaxFaults } :
              CASE res.kind = "ok" ->
                     /\ token_cache' = TokenCache_set(token_cache, account, "at-1", 3600, now)
                     /\ hist' = [ hist EXCEPT !.tokens =
                                    PutKey(@, account, TokenSet(account, "at-1", 3600)),
                                    !.acquired = @ + 1,
                                    !.serials = PutKey(@, account, hist.acquired + 1),
                                    !.bearer = [ email |-> account,
                                                 serial |-> hist.acquired + 1 ] ]
                     /\ pc' = "project"
                     /\ UNCHANGED last_error
                [] res.kind = "rejected" ->
                     /\ Raise("AntigravityInvalidCredentialsError", res.text)
                     /\ hist' = [ hist EXCEPT !.failed = account, !.faults = @ + 1,
                                              !.failed_keys = DOMAIN rate_limits ]
                     /\ UNCHANGED token_cache
                [] OTHER ->
                     /\ Raise("AntigravityAuthError", {})
                     /\ hist' = [ hist EXCEPT !.faults = @ + 1 ]
                     /\ UNCHANGED token_cache
    /\ UNCHANGED << call, peer, oauth, threads, disk, accounts, accounts_file, project_cache, mgrVars, model, depth, attempt,
                    max_attempts, account, wait_ms, endpoint, outcome, selRet, lastMark >>

\* line 651-656 and authenticator.py get_project_for_account
GetProject ==
    /\ pc = "project"
    /\ LET i == IndexOfEmail(accounts, account)
       IN  IF ProjectCache_get(project_cache, account) # NoneStr
           THEN UNCHANGED << accounts, accounts_file, project_cache >>
           ELSE IF accounts[i].project_id # NoneStr
           THEN /\ project_cache' = ProjectCache_set(project_cache, account, accounts[i].project_id)
                /\ UNCHANGED << accounts, accounts_file >>
           ELSE \E discovered \in DiscoverResults :
                /\ project_cache' = ProjectCache_set(project_cache, account, discovered)
                /\ accounts' = [ accounts EXCEPT ![i].project_id = discovered ]
                /\ accounts_file' = save_accounts(accounts')
    /\ pc' = "post"
    /\ endpoint' = 1
    /\ last_error' = NoError
    /\ hist' = [ hist EXCEPT !.sent =
                   [ account |-> account, rate_limits |-> rate_limits,
                     invalid |-> [ j \in 1..Len(accounts) |-> accounts[j].is_invalid ],
                     current_index |-> current_index, now |-> now, n5xx |-> 0,
                     n401 |-> 0 ] ]
    /\ UNCHANGED << call, peer, oauth, threads, disk, token_cache, mgrVars, model, depth, attempt, max_attempts, account,
                    wait_ms, outcome, selRet, lastMark >>

\* no pause after a server error
sleep_after_none(status) == 0

\* line 687-691: time.sleep(1) after a 5xx answer, in milliseconds
sleep_after(status) == IF status >= 500 THEN 1000 ELSE 0

\* line 658-705: one endpoint of the fallback list
Post ==
    /\ pc = "post"
    /\ \E resp \in { x \in UpstreamResponses : x.status = 200 \/ hist.faults < MaxFaults } :
         /\ hist' = [ hist EXCEPT !.faults = IF resp.status = 200 THEN @ ELSE @ + 1,
                                  !.tokens = IF resp.status = 401
                                             THEN RemoveKey(@, account) ELSE @,
                                  !.sent.n5xx = IF resp.status >= 500 THEN @ + 1 ELSE @,
                                  !.sent.n401 = IF resp.status = 401 THEN @ + 1 ELSE @,
                                  !.serials = IF resp.status = 401
                                              THEN RemoveKey(@, account) ELSE @,
                                  !.rejected = IF resp.status = 401
                                               THEN @ \cup { hist.bearer } ELSE @,
                                  !.resent = @ \/ hist.bearer \in hist.rejected ]
         /\ IF resp.status = 200
            THEN /\ Finish("ok")
                 /\ UNCHANGED endpoint
            ELSE /\ IF endpoint = Len(ANTIGRAVITY_ENDPOINT_FALLBACKS)
                    THEN pc' = "classify" /\ UNCHANGED endpoint
                    ELSE endpoint' = endpoint + 1 /\ UNCHANGED pc
                 /\ UNCHANGED outcome
         /\ IF resp.status = 401
            THEN /\ token_cache' = TokenCache_clear(token_cache, account)
                 /\ project_cache' = ProjectCache_clear(project_cache, account)
            ELSE UNCHANGED << token_cache, project_cache >>
         /\ last_error' =
              CASE resp.status = 429 ->
                     [ kind |-> "429", reset_ms |-> resp.reset_ms, cls |-> "none", text |-> {} ]
                [] resp.status >= 500 ->
                     [ kind |-> "exc", reset_ms |-> NoneMs, cls |-> "Exception",
                       text |-> { "503", "server error" } ]
                [] resp.status = 400 ->
                     [ kind |-> "exc", reset_ms |-> NoneMs, cls |-> "HTTPStatusError",
                       text |-> {} ]
                [] OTHER -> last_error
         /\ now' = now + sleep_after(resp.status)
    /\ UNCHANGED << call, peer, oauth, threads, disk, accounts, accounts_file, current_index, rate_limits, model, depth,
                    attempt, max_attempts, account, wait_ms, selRet, lastMark >>

\* line 707-721: after the endpoint loop
Classify ==
    /\ pc = "classify"
    /\ CASE last_error.kind = "none" ->
              /\ pc' = "select"
              /\ UNCHANGED << rate_limits, last_error, hist >>
         [] last_error.kind = "429" ->
              /\ rate_limits' = mark_rate_limited(rate_limits, account, last_error.reset_ms,
                                                  model, now)
              /\ hist' = [ hist EXCEPT !.limited =
                             IF \E i \in get_available_accounts(accounts, rate_limits, model, now) :
                                   accounts[i].email # account
                             THEN account ELSE <<>> ]
              /\ pc' = "select"
              /\ UNCHANGED last_error
         [] OTHER ->
              /\ Raise("AntigravityError", last_error.text)
              /\ UNCHANGED << rate_limits, hist >>
    /\ UNCHANGED << call, peer, oauth, threads, disk, storeVars, current_index, now, model, depth, attempt, max_attempts,
                    account, wait_ms, endpoint, outcome, selRet, lastMark >>

\* line 719-740: the handlers of the try block
Except ==
    /\ pc = "except"
    /\ CASE last_error.cls = "AntigravityAuthError" ->
              /\ accounts' = mark_invalid(accounts, account, "Auth error")
              /\ pc' = "select"
              /\ UNCHANGED << rate_limits, current_index, selRet, outcome >>
         [] last_error.cls # "AntigravityAuthError" /\ is_rate_limit_error(last_error.text) ->
              /\ rate_limits' = mark_rate_limited(rate_limits, account, NoneMs, model, now)
              /\ pc' = "select"
              /\ UNCHANGED << accounts, current_index, selRet, outcome >>
         [] last_error.cls # "AntigravityAuthError" /\ ~is_rate_limit_error(last_error.text)
               /\ is_auth_error(last_error.text) ->
              /\ accounts' = mark_invalid(accounts, account, "error text")
              /\ pc' = "select"
              /\ UNCHANGED << rate_limits, current_index, selRet, outcome >>
         [] last_error.cls # "AntigravityAuthError" /\ ~is_rate_limit_error(last_error.text)
               /\ ~is_auth_error(last_error.text)
               /\ last_error.text \cap ServerFragments # {} ->
              /\ LET r == pick_next(accounts, rate_limits, current_index, model, now)
                 IN  /\ current_index' = r.index
                     /\ selRet' = Ret("pick_next", r.account, 0)
              /\ pc' = "select"
              /\ UNCHANGED << accounts, rate_limits, outcome >>
         [] OTHER ->
              /\ Finish(last_error.cls)
              /\ UNCHANGED << accounts, rate_limits, current_index, selRet >>
    /\ UNCHANGED << call, peer, oauth, threads, disk, accounts_file, token_cache, project_cache, now, model, depth, attempt,
                    max_attempts, account, wait_ms, endpoint, last_error, lastMark, hist >>

(* A second dispatch on the same AccountManager, followed through the     *)
(* steps that touch the shared selector and ledger: its pick_sticky_account *)
(* and the mark it makes when Upstream answers its request with 429.  No    *)
(* lock orders its steps with those of the first dispatch.                  *)

\* what Upstream answers to the second dispatch's request
PeerResponses ==
    { x \in UpstreamResponses : x.status \in { 200, 429 } }

\* line 601: the second dispatch selects its account
PeerSelect(m) ==
    /\ peer.pc = "idle"
    /\ LET r == pick_sticky_account(accounts, rate_limits, current_index, m, now)
       IN  /\ current_index' = r.index
           /\ peer' = IF r.account # NoAccount
                      THEN [ pc |-> "post", account |-> r.account.email, model |-> m ]
                      ELSE [ pc |-> "done", account |-> <<>>, model |-> m ]
    /\ UNCHANGED << call, oauth, threads, disk, storeVars, rate_limits, now, dispVars, histVars >>

\* line 658-712: its request is answered; a 429 marks its account for its model
PeerAnswer(resp) ==
    /\ peer.pc = "post"
    /\ rate_limits' = IF resp.status = 429
                      THEN mark_rate_limited(rate_limits, peer.account, resp.reset_ms,
                                             peer.model, now)
                      ELSE rate_limits
    /\ peer' = [ peer EXCEPT !.pc = "done" ]
    /\ UNCHANGED << call, oauth, threads, disk, storeVars, current_index, now, dispVars, histVars >>

\* time passes between two dispatches
Idle ==
    /\ pc \in { "idle", "done" }
    /\ hist.ticks < MaxTicks
    /\ \E d \in TickChoices : now' = now + d
    /\ hist' = [ hist EXCEPT !.ticks = @ + 1, !.limited = <<>>, !.sent = NoSent ]
    /\ UNCHANGED << call, peer, oauth, threads, disk, storeVars, current_index, rate_limits, dispVars, selRet, lastMark >>

---------------------------------------------------------------------------
(* common_utils.py: parse_reset_time_from_error.  A text is a sequence of   *)
(* characters; the literal 'reset after ' of the patterns is one element.   *)

RESET_AFTER == "reset after "

DigitChars == << "0", "1", "2", "3", "4", "5", "6", "7", "8", "9" >>

IsDigit(c) == \E d \in 1..Len(DigitChars) : DigitChars[d] = c

DigitValue(c) == (CHOOSE d \in 1..Len(DigitChars) : DigitChars[d] = c) - 1

\* re.IGNORECASE on the characters of the texts
lower(c) ==
    CASE c = "H" -> "h" [] c = "M" -> "m" [] c = "S" -> "s"
      [] c = "Reset After " -> RESET_AFTER
      [] OTHER -> c

\* (\d+): the index after the longest run of digits that starts at i
RECURSIVE DigitsEnd(_, _)
DigitsEnd(text, i) ==
    IF i <= Len(text) /\ IsDigit(text[i]) THEN DigitsEnd(text, i + 1) ELSE i

\* int() of the digits text[i..j-1]
RECURSIVE int(_, _, _)
int(text, i, j) ==
    IF j <= i THEN 0 ELSE int(text, i, j - 1) * 10 + DigitValue(text[j - 1])

\* the rest of a pattern matched at i: for every unit a run of digits and the
\* unit's letter; the groups are the numbers
RECURSIVE MatchUnits(_, _, _)
MatchUnits(text, i, units) ==
    IF units = <<>> THEN [ ok |-> TRUE, groups |-> <<>> ]
    ELSE LET j == DigitsEnd(text, i)
         IN  IF j > i /\ j <= Len(text) /\ lower(text[j]) = Head(units)
             THEN LET rest == MatchUnits(text, j + 1, Tail(units))
                  IN  [ ok |-> rest.ok,
                        groups |-> IF rest.ok THEN << int(text, i, j) >> \o rest.groups
                                   ELSE <<>> ]
             ELSE [ ok |-> FALSE, groups |-> <<>> ]

\* re.search(pattern, error_text, re.IGNORECASE): the leftmost match
re_search(units, text) ==
    LET starts == { p \in 1..Len(text) :
                      lower(text[p]) = RESET_AFTER /\ MatchUnits(text, p + 1, units).ok }
    IN  IF starts = {} THEN [ ok |-> FALSE, groups |-> <<>> ]
        ELSE MatchUnits(text, SetMin(starts) + 1, units)

\* the patterns with the single units first
ResetPatterns_single_first ==
    << << "h" >>, << "m" >>, << "s" >>, << "h", "m" >>, << "m", "s" >>, << "h", "m", "s" >> >>

\* line 251-258: the patterns, each as the units after 'reset after '
ResetPatterns ==
    << << "h", "m", "s" >>, << "h", "m" >>, << "h" >>, << "m", "s" >>, << "m" >>, << "s" >> >>

\* `"h" in pattern`: of the letters h and m a pattern holds those of its units
InPattern(c, units) == \E k \in 1..Len(units) : units[k] = c

\* line 260-282
parse_reset_time_from_error(error_text) ==
    LET hits == { k \in 1..Len(ResetPatterns) : re_search(ResetPatterns[k], error_text).ok }
    IN  IF hits = {} THEN NoneMs
        ELSE LET pattern == ResetPatterns[SetMin(hits)]
                 groups == re_search(pattern, error_text).groups
             IN  IF Len(groups) = 3
                 THEN groups[1] * 3600000 + groups[2] * 60000 + groups[3] * 1000
                 ELSE IF Len(groups) = 2
                 THEN IF InPattern("h", pattern) /\ InPattern("m", pattern)
                      THEN groups[1] * 3600000 + groups[2] * 60000
                      ELSE groups[1] * 60000 + groups[2] * 1000
                 ELSE IF InPattern("h", pattern) THEN groups[1] * 3600000
                 ELSE IF InPattern("m", pattern) THEN groups[1] * 60000
                 ELSE groups[1] * 1000

(* The error texts of the parser's specification: an optional 'reset after ' *)
(* and up to MaxResetParts parts, each a number (possibly without digits)   *)
(* and a letter.                                                            *)

ResetNumbers == { <<>>, << "5" >>, << "0", "7" >>, << "1", "0" >> }
ResetLetters == { "h", "m", "S", "x" }
ResetHeads == { <<>>, << RESET_AFTER >>, << "x", "Reset After " >> }

ResetParts == ResetNumbers \X ResetLetters

RECURSIVE TextOf(_)
TextOf(parts) ==
    IF parts = <<>> THEN <<>>
    ELSE Head(parts)[1] \o << Head(parts)[2] >> \o TextOf(Tail(parts))

ResetTexts ==
    { [ head |-> h, parts |-> ps, text |-> h \o TextOf(ps) ] :
        h \in ResetHeads,
        ps \in UNION { [ 1..n -> ResetParts ] : n \in 0..MaxResetParts } }

\* line 677-679 of transformation.py: the reset time of a 429's text
ParseResetTime ==
    /\ call.fn = "parse_reset_time_from_error"
    /\ ~call.returned
    /\ call' = [ call EXCEPT !.returned = TRUE,
                             !.ret = parse_reset_time_from_error(call.arg.text) ]
    /\ UNCHANGED << peer, oauth, threads, disk, storeVars, mgrVars, dispVars, histVars >>

---------------------------------------------------------------------------
(* transformation.py: _sanitize_schema.  A JSON value is a record with one  *)
(* field that names its kind: dict (key -> value), list, str or bool.       *)

JDict(d) == [ dict |-> d ]
JStr(x) == [ str |-> x ]
JBool(b) == [ bool |-> b ]
JList(l) == [ list |-> l ]

\* isinstance(value, dict)
IsDict(v) == "dict" \in DOMAIN v

\* `value is False`
IsFalse(v) == "bool" \in DOMAIN v /\ v.bool = FALSE

\* line 326: the keys that are dropped
DROPPED_SCHEMA_KEYS ==
    { "$schema", "$id", "$ref", "definitions", "$defs", "examples", "default" }

\* a default type that is itself a schema
DEFAULT_SCHEMA_TYPE_as_schema == JDict(<<>>)

\* line 343: the type given to a schema without one
DEFAULT_SCHEMA_TYPE == JStr("object")

\* line 320-346
RECURSIVE sanitize_schema(_)
sanitize_schema(schema) ==
    IF ~IsDict(schema) THEN JDict([ k \in { "type" } |-> DEFAULT_SCHEMA_TYPE ])
    ELSE LET d == schema.dict
             kept == { key \in DOMAIN d :
                         /\ key \notin DROPPED_SCHEMA_KEYS
                         /\ key = "additionalProperties" => (IsDict(d[key]) \/ IsFalse(d[key])) }
             value(key) ==
                 IF key = "properties" /\ IsDict(d[key])
                 THEN JDict([ k \in DOMAIN d[key].dict |-> sanitize_schema(d[key].dict[k]) ])
                 ELSE IF IsDict(d[key]) THEN sanitize_schema(d[key])
                 ELSE d[key]
         IN  JDict([ key \in kept \cup { "type" } |->
                       IF key \in kept THEN value(key) ELSE DEFAULT_SCHEMA_TYPE ])

(* The schemas of the sanitizer's specification *)

SchemaKeys == { "type", "properties", "items", "additionalProperties", "$ref", "title" }

SchemaLeaves ==
    { JStr("string"), JBool(FALSE), JBool(TRUE),
      JList(<< JDict([ k \in { "$ref" } |-> JStr("#/definitions/a") ]) >>) }

\* the dicts of at most n keys with values from a set
DictsOver(values, n) ==
    { JDict(f) : f \in UNION { [ ks -> values ] :
                                 ks \in { x \in SUBSET SchemaKeys : Cardinality(x) <= n } } }

SchemasInner == DictsOver(SchemaLeaves, 1)

SchemasNested == DictsOver(SchemaLeaves \cup SchemasInner, 1)

Schemas ==
    SchemaLeaves
      \cup DictsOver(SchemaLeaves \cup SchemasInner, MaxSchemaKeys)
      \cup DictsOver(SchemasNested, 1)

\* line 203-208: the parameters of a tool are sanitized
SanitizeSchema ==
    /\ call.fn = "_sanitize_schema"
    /\ ~call.returned
    /\ call' = [ call EXCEPT !.returned = TRUE, !.ret = sanitize_schema(call.arg) ]
    /\ UNCHANGED << peer, oauth, threads, disk, storeVars, mgrVars, dispVars, histVars >>

---------------------------------------------------------------------------
(* transformation.py: _convert_openai_messages_to_google.  The content of a *)
(* message is a string or a list of blocks; a block has a type and a text.  *)

\* system_instruction = None
NoInstruction == [ parts |-> << >>, set |-> FALSE ]

TextBlock(x) == [ type |-> "text", text |-> x ]
AudioBlock == [ type |-> "input_audio", text |-> "" ]

IsStr(content) == "str" \in DOMAIN content

\* line 41-46
convert_role(role) == IF role = "assistant" THEN "model" ELSE "user"

\* line 49-158, for strings and for lists of text blocks and of blocks of a
\* type it has no branch for; text.strip() is empty for "" and for " "
convert_content_to_parts(content) ==
    IF IsStr(content) THEN << [ text |-> content.str ] >>
    ELSE LET kept == SelectSeq(content.list,
                               LAMBDA b : b.type = "text" /\ b.text \notin { "", " " })
         IN  [ k \in 1..Len(kept) |-> [ text |-> kept[k].text ] ]

\* line 174-182: what a system message makes of system_instruction
system_instruction_after(system_instruction, content) ==
    IF IsStr(content)
    THEN [ parts |-> << [ text |-> content.str ] >>, set |-> TRUE ]
    ELSE LET texts == SelectSeq(content.list, LAMBDA c : c.type = "text")
             text_parts == [ k \in 1..Len(texts) |-> [ text |-> texts[k].text ] ]
         IN  IF text_parts # << >> THEN [ parts |-> text_parts, set |-> TRUE ]
             ELSE system_instruction

\* line 161-225, over messages without tool calls
RECURSIVE convert_openai_messages_to_google(_)
convert_openai_messages_to_google(messages) ==
    IF messages = << >> THEN [ contents |-> << >>, system_instruction |-> NoInstruction ]
    ELSE LET before == convert_openai_messages_to_google(SubSeq(messages, 1, Len(messages) - 1))
             msg == messages[Len(messages)]
         IN  IF msg.role = "system"
             THEN [ before EXCEPT !.system_instruction =
                        system_instruction_after(@, msg.content) ]
             ELSE LET parts == convert_content_to_parts(msg.content)
                  IN  [ before EXCEPT !.contents =
                          Append(@, [ role |-> convert_role(msg.role),
                                      parts |-> IF parts = << >> THEN << [ text |-> "." ] >>
                                                ELSE parts ]) ]

(* The requests of the conversion's specification *)

MessagePool ==
    { [ role |-> "system", content |-> [ str |-> "be brief" ] ],
      [ role |-> "system", content |-> [ str |-> "answer in French" ] ],
      [ role |-> "system", content |-> [ list |-> << TextBlock("cite sources"), AudioBlock >> ] ],
      [ role |-> "system", content |-> [ list |-> << AudioBlock >> ] ],
      [ role |-> "user", content |-> [ str |-> "hello" ] ],
      [ role |-> "assistant", content |-> [ list |-> << TextBlock(" ") >> ] ] }

Requests == UNION { [ 1..n -> MessagePool ] : n \in 1..MaxMessages }

\* line 416: transform_request converts the messages
ConvertMessages ==
    /\ call.fn = "_convert_openai_messages_to_google"
    /\ ~call.returned
    /\ call' = [ call EXCEPT !.returned = TRUE,
                             !.ret = convert_openai_messages_to_google(call.arg) ]
    /\ UNCHANGED << peer, oauth, threads, disk, storeVars, mgrVars, dispVars, histVars >>

---------------------------------------------------------------------------
(* transformation.py: _convert_google_response_to_openai.  A part of the    *)
(* first candidate is a text, a thought or a functionCall with an id.       *)

\* first_candidate.get("finishReason", "STOP")
FinishReasons == { NoneStr, "STOP", "MAX_TOKENS", "TOOL_USE", "SAFETY" }

PartPool ==
    { [ kind |-> "text", text |-> "hi", thought |-> FALSE ],
      [ kind |-> "text", text |-> "hmm", thought |-> TRUE ],
      [ kind |-> "functionCall", text |-> "get_weather", thought |-> FALSE ] }

GoogleResponses ==
    { [ finishReason |-> f, parts |-> ps ] :
        f \in FinishReasons,
        ps \in UNION { [ 1..n -> PartPool ] : n \in 0..MaxResponseParts } }

\* line 263-271
stop_reason_of(finish_reason, has_tool_calls) ==
    IF finish_reason = "STOP" THEN "stop"
    ELSE IF finish_reason = "MAX_TOKENS" THEN "length"
    ELSE IF finish_reason = "TOOL_USE" \/ has_tool_calls THEN "tool_calls"
    ELSE "stop"

\* line 228-317: the message and the finish_reason of the choice
convert_google_response_to_openai(google_response) ==
    LET parts == google_response.parts
        texts == SelectSeq(parts, LAMBDA q : q.kind = "text" /\ ~q.thought)
        calls == SelectSeq(parts, LAMBDA q : q.kind = "functionCall")
        has_tool_calls == calls # << >>
        finish_reason == IF google_response.finishReason = NoneStr THEN "STOP"
                         ELSE google_response.finishReason
    IN  [ content |-> [ k \in 1..Len(texts) |-> texts[k].text ],
          tool_calls |-> [ k \in 1..Len(calls) |-> calls[k].text ],
          finish_reason |-> stop_reason_of(finish_reason, has_tool_calls) ]

\* line 548 and 690: an answer of Upstream is translated
ConvertResponse ==
    /\ call.fn = "_convert_google_response_to_openai"
    /\ ~call.returned
    /\ call' = [ call EXCEPT !.returned = TRUE,
                             !.ret = convert_google_response_to_openai(call.arg) ]
    /\ UNCHANGED << peer, oauth, threads, disk, storeVars, mgrVars, dispVars, histVars >>

---------------------------------------------------------------------------
(* Specifications *)

\* the ledger alone: marks, sweeps and the clock
InitLedger == InitWith({ s \in Stores({ "rt-1" }, { "proj-1" }) : Len(s) = MaxAccounts })

NextLedger ==
    \/ \E e \in Emails, r \in ResetChoices, m \in ManagerModels : MarkRateLimited(e, r, m)
    \/ ClearExpiredLimits
    \/ Tick

SpecLedger == InitLedger /\ [][NextLedger]_vars

\* the selector over a changing pool and ledger
InitSelector == InitWith(Stores({ "rt-1" }, { "proj-1" }))

NextSelector ==
    \/ \E e \in Emails, c \in SelectorMarks : MarkRateLimited(e, c[1], c[2])
    \/ ClearExpiredLimits
    \/ ResetAllRateLimits
    \/ \E e \in Emails : MarkInvalid(e)
    \/ \E m \in ManagerModels : PickNext(m)
    \/ \E m \in ManagerModels : GetCurrentStickyAccount(m)
    \/ \E m \in ManagerModels : PickStickyAccount(m)
    \/ Tick

SpecSelector == InitSelector /\ [][NextSelector]_vars

\* pick_sticky_account over waits on both sides of its thresholds
InitSticky == InitWith(Stores({ "rt-1" }, { "proj-1" }))

NextSticky ==
    \/ \E e \in Emails, c \in StickyMarks : MarkRateLimited(e, c[1], c[2])
    \/ \E e \in Emails : MarkInvalid(e)
    \/ \E e \in Emails : RemoveAccount(e)
    \/ \E m \in ManagerModels : PickStickyAccount(m)
    \/ Tick

SpecSticky == InitSticky /\ [][NextSticky]_vars

\* get_min_wait_time_ms over entries of several models
InitMinWait == InitWith({ s \in Stores({ "rt-1" }, { "proj-1" }) : Len(s) = MaxAccounts })

NextMinWait ==
    \/ \E e \in Emails, c \in MinWaitMarks :
          MarkRateLimited(e, c[1], c[2])
    \/ \E m \in MinWaitModels : GetMinWaitTimeMs(m)
    \/ Tick

SpecMinWait == InitMinWait /\ [][NextMinWait]_vars

\* the account store and what it persists
InitStore == InitWith(Stores({ "rt-1" }, { "proj-1", NoneStr }))

NextStore ==
    \/ \E e \in Emails : MarkInvalid(e)
    \/ \E e \in Emails : AddAccountInteractive(e, "rt-2", "proj-1")
    \/ \E e \in Emails : AuthCallback(e, "rt-2", "proj-1")
    \/ \E e \in Emails : RemoveAccount(e)
    \/ \E i \in 1..Len(accounts), d \in DiscoverResults : GetProjectForAccount(i, d)
    \/ PickNext(M_GEMINI_3_PRO_HIGH)
    \/ GetCurrentStickyAccount(M_GEMINI_3_PRO_HIGH)
    \/ PickStickyAccount(M_GEMINI_3_PRO_HIGH)

SpecStore == InitStore /\ [][NextStore]_vars

\* removals from a store whose accounts have cache and ledger entries
InitRemove == InitWith({ s \in Stores({ "rt-1" }, { NoneStr }) : Len(s) = MaxAccounts })

NextRemove ==
    \/ \E e \in Emails, c \in StickyMarks : MarkRateLimited(e, c[1], c[2])
    \/ \E e \in Emails : AddAccountInteractive(e, "rt-2", NoneStr)
    \/ \E i \in 1..Len(accounts) : GetProjectForAccount(i, "proj-1")
    \/ \E e \in Emails : RemoveAccount(e)

SpecRemove == InitRemove /\ [][NextRemove]_vars

\* the rotation: the pool, the ledger and the index are brought to some state,
\* then pick_next is called as many times as there are accounts
InitRotation == InitWith(Stores({ "rt-1" }, { "proj-1" }))

NextRotation ==
    \/ /\ hist.run = 0
       /\ \/ \E e \in Emails, c \in SelectorMarks : MarkRateLimited(e, c[1], c[2])
          \/ \E e \in Emails : MarkInvalid(e)
          \/ \E m \in ManagerModels : PickNext(m)
          \/ Tick
    \/ \E m \in ManagerModels : PickNextInRun(m)

SpecRotation == InitRotation /\ [][NextRotation]_vars

\* the ledger shared by threads: marks, the clock, and sweeps that interleave
InitThreads == InitWith({ s \in Stores({ "rt-1" }, { "proj-1" }) : Len(s) = MaxAccounts })

NextThreads ==
    \/ \E e \in Emails, c \in SelectorMarks : MarkRateLimited(e, c[1], c[2])
    \/ \E w \in Threads : SweepScan(w)
    \/ \E w \in Threads : SweepDelete(w)
    \/ Tick

SpecThreads == InitThreads /\ [][NextThreads]_vars

\* the accounts file: one process saves it while another loads it
InitDisk == InitWith(Stores({ "rt-1" }, { "proj-1" }))

NextDisk ==
    \/ \E e \in Emails, r \in { "rt-1", "rt-2" } : SaveOpenAfterAdd(e, r, "proj-1")
    \/ \E e \in Emails : SaveOpenAfterRemove(e)
    \/ SaveWrite
    \/ SaveClose
    \/ LoadAccounts

SpecDisk == InitDisk /\ [][NextDisk]_vars

\* the token cache: sets, clears and gets as the clock moves
InitTokenCache == InitWith({ s \in Stores({ "rt-1" }, { "proj-1" }) : Len(s) = MaxAccounts })

NextTokenCache ==
    \/ \E e \in Emails, a \in AccessTokens, x \in ExpiresInChoices : TokenCacheSet(e, a, x)
    \/ \E e \in Emails : TokenCacheClear(e)
    \/ \E e \in Emails : TokenCacheGet(e)
    \/ Tick

SpecTokenCache == InitTokenCache /\ [][NextTokenCache]_vars

\* the OAuth flows of the proxy and of add_account_interactive
InitOAuth == InitWith({ s \in Stores({ "rt-1" }, { "proj-1" }) : Len(s) <= 1 })

NextOAuth ==
    \/ AuthStart
    \/ \E c \in CallbackCodes, st \in CallbackStates, e \in CallbackErrors,
          x \in ExchangeResults : CallbackEndpoint(c, st, e, x)
    \/ StartInteractive
    \/ \E ok \in BOOLEAN, c \in CallbackCodes, st \in CallbackStates, e \in CallbackErrors :
          ListenerGet(ok, c, st, e)
    \/ ListenerSetState
    \/ \E x \in ExchangeResults : ListenerJoin(x)

SpecOAuth == InitOAuth /\ [][NextOAuth]_vars

\* the same flows with the steps the program takes by itself: a request being
\* handled is handled to its end, and thread.join returns after
\* timeout_seconds at the latest.  Whether and when a browser calls back is
\* not the program's to decide; endpoints.py starts no timer.
SpecOAuthLive ==
    /\ InitOAuth
    /\ [][NextOAuth]_vars
    /\ WF_vars(ListenerSetState)
    /\ WF_vars(\E x \in ExchangeResults : ListenerJoin(x))

\* the dispatcher: dispatches one after the other against Upstream
DispatchStores ==
    { s \in Stores({ "rt-1", NoneStr }, { "proj-1", NoneStr }) :
        \A i \in 2..Len(s) : s[i].refresh_token = "rt-1" /\ s[i].project_id = "proj-1" }

Init == InitWith(DispatchStores)

Next ==
    \/ \E m \in RequestModels : StartDispatch(m)
    \/ Select
    \/ SleepSticky
    \/ CheckAccount
    \/ SleepAll
    \/ Fallback
    \/ GetToken
    \/ GetProject
    \/ Post
    \/ Classify
    \/ Except
    \/ Idle

Spec == Init /\ [][Next]_vars

\* two dispatches at the same time: the first one step by step, the second
\* one through its selection and its 429
InitConcurrent == InitWith({ s \in Stores({ "rt-1" }, { "proj-1" }) : Len(s) = MaxAccounts })

NextConcurrent ==
    \/ StartDispatch(M_GEMINI_3_PRO_HIGH)
    \/ Select
    \/ SleepSticky
    \/ CheckAccount
    \/ SleepAll
    \/ Fallback
    \/ GetToken
    \/ GetProject
    \/ Post
    \/ Classify
    \/ Except
    \/ PeerSelect(M_GEMINI_3_PRO_HIGH)
    \/ \E resp \in PeerResponses : PeerAnswer(resp)

SpecConcurrent == InitConcurrent /\ [][NextConcurrent]_vars

\* dispatches one after the other while every token refresh succeeds and
\* Upstream answers 200; between them accounts are marked and time passes.
\* The dispatcher is straight-line code between its sleeps and requests, so
\* a step of it that is enabled is eventually taken.
InitProgress == InitWith(Stores({ "rt-1" }, { "proj-1" }))

DispatchStep ==
    \/ Select
    \/ SleepSticky
    \/ CheckAccount
    \/ SleepAll
    \/ Fallback
    \/ GetToken /\ pc' = "project"
    \/ GetProject
    \/ Post /\ pc' = "done"

NextProgress ==
    \/ /\ pc \in { "idle", "done" }
       /\ \E e \in Emails, c \in SelectorMarks : MarkRateLimited(e, c[1], c[2])
    \/ /\ pc \in { "idle", "done" }
       /\ \E e \in Emails : MarkInvalid(e)
    \/ StartDispatch(M_GEMINI_3_PRO_HIGH)
    \/ Idle
    \/ DispatchStep

SpecProgress == InitProgress /\ [][NextProgress]_vars /\ WF_vars(DispatchStep)

\* the reset-time parser over the error texts
InitParse ==
    /\ InitProgram({ <<>> })
    /\ call \in { [ fn |-> "parse_reset_time_from_error", arg |-> t, returned |-> FALSE,
                     ret |-> NoneMs ] : t \in ResetTexts }

NextParse == ParseResetTime

SpecParse == InitParse /\ [][NextParse]_vars

\* the schema sanitizer over the schemas
InitSanitize ==
    /\ InitProgram({ <<>> })
    /\ call \in { [ fn |-> "_sanitize_schema", arg |-> x, returned |-> FALSE,
                     ret |-> JDict(<<>>) ] : x \in Schemas }

NextSanitize == SanitizeSchema

SpecSanitize == InitSanitize /\ [][NextSanitize]_vars

\* the conversion of the messages of a request
InitMessages ==
    /\ InitProgram({ <<>> })
    /\ call \in { [ fn |-> "_convert_openai_messages_to_google", arg |-> x, returned |-> FALSE,
                     ret |-> [ contents |-> << >>, system_instruction |-> NoInstruction ] ] :
                   x \in Requests }

NextMessages == ConvertMessages

SpecMessages == InitMessages /\ [][NextMessages]_vars

\* the translation of Upstream's answers
InitResponse ==
    /\ InitProgram({ <<>> })
    /\ call \in { [ fn |-> "_convert_google_response_to_openai", arg |-> x, returned |-> FALSE,
                     ret |-> [ content |-> << >>, tool_calls |-> << >>,
                               finish_reason |-> NoneStr ] ] :
                   x \in GoogleResponses }

NextResponse == ConvertResponse

SpecResponse == InitResponse /\ [][NextResponse]_vars

---------------------------------------------------------------------------
(* Properties *)

SelectorOps == { "pick_next", "current_sticky", "pick_sticky" }

\* the larger of an account's per-model and per-account remaining waits
ResidualWait(rl, email, model_id, t) ==
    LET w(k) == IF k \in DOMAIN rl /\ rl[k].reset_time > t THEN rl[k].reset_time - t ELSE 0
    IN  Max2(w(get_rate_limit_key(email, model_id)), w(get_rate_limit_key(email, <<>>)))

\* C1: no selector operation (pick_next, current_sticky, pick_sticky) returns
\* an account that is marked invalid, whatever the ledger contains, also after
\* the ledger was swept or reset.
C1_NeverReturnsInvalid ==
    (selRet.op \in SelectorOps /\ selRet.account # NoAccount)
        => /\ ~is_account_invalid(selRet.account)
           /\ \E i \in 1..Len(accounts) : accounts[i].email = selRet.account.email

\* an invalid account whose limit was marked and then reset, and a selector
\* operation that returned another account
C1_Witness ==
    /\ selRet.op \in SelectorOps
    /\ selRet.account # NoAccount
    /\ rate_limits = <<>>
    /\ \E i \in 1..Len(accounts) :
          /\ is_account_invalid(accounts[i])
          /\ accounts[i].email \in DOMAIN lastMark
          /\ accounts[i].email # selRet.account.email

\* C2: is_limited(account, model) is true iff the most recent mark for the key
\* email:model or the most recent mark for the key email has reset_time > now,
\* after any sequence of marks and sweeps; a later mark replaces an earlier one.
C2_LimitedIffLastMarkInFuture ==
    \A e \in Emails, m \in ManagerModels :
        is_account_rate_limited(rate_limits, NewAccount(e, NoneStr, NoneStr), m, now)
        <=> \E k \in { e \o << ":" >> \o m, e } :
                /\ k \in DOMAIN lastMark
                /\ (m = <<>> => k = e)
                /\ lastMark[k] > now

\* an account whose per-model entry has expired and was swept while its
\* per-account entry is still in the future
C2_Witness ==
    \E e \in Emails :
        LET k == e \o << ":" >> \o M_GEMINI_3_PRO_HIGH
        IN  /\ k \in DOMAIN lastMark
            /\ k \notin DOMAIN rate_limits
            /\ e \in DOMAIN rate_limits
            /\ rate_limits[e].reset_time > now
            /\ now > 0

\* C3 (as claimed): after a 429 at every endpoint for the selected account,
\* with another account valid and unlimited, the next attempt selects a
\* different account than the one just limited.
C3_RotatesAfter429 ==
    (pc = "check" /\ hist.limited # <<>>) => account # hist.limited

C5_QuotaExhaustedExactly ==
    [][ LET none == account = <<>>
            all == is_all_rate_limited(accounts, rate_limits, model, now)
            w == get_min_wait_time_ms(rate_limits, model, now)
            raised == /\ pc # "done"
                      /\ pc' = "done"
                      /\ outcome'.kind = "AntigravityQuotaExhaustedError"
        IN  /\ (pc = "check" /\ none /\ all /\ w > MAX_WAIT_BEFORE_ERROR_MS) => raised
            /\ (pc = "check" /\ none /\ all /\ w <= MAX_WAIT_BEFORE_ERROR_MS)
                  => (pc' = "sleep_all" /\ wait_ms' = w)
            /\ pc = "sleep_all"
                  => /\ now' = now + wait_ms
                     /\ rate_limits' = [ k \in { x \in DOMAIN rate_limits :
                                                   rate_limits[x].reset_time > now' }
                                         |-> rate_limits[k] ]
                     /\ selRet'.op = "pick_next"
                     /\ account' = selRet'.account.email
            /\ raised => (pc = "check" /\ none /\ all /\ w > MAX_WAIT_BEFORE_ERROR_MS)
      ]_vars

\* QuotaExhaustedError raised with every account limited for longer than the threshold
C5_Witness ==
    /\ pc = "done"
    /\ outcome.kind = "AntigravityQuotaExhaustedError"
    /\ account = <<>>
    /\ is_all_rate_limited(accounts, rate_limits, model, now)
    /\ get_min_wait_time_ms(rate_limits, model, now) > MAX_WAIT_BEFORE_ERROR_MS

\* C6 (as claimed): a dispatch makes at most max_attempts passes of the
\* select-and-send loop for a model and its chain of fallback re-entries ends.
C6_BoundedPasses ==
    /\ \A m \in DOMAIN hist.passes : hist.passes[m] <= Max2(MAX_RETRIES, Len(accounts) + 1)
    /\ depth <= Cardinality(DOMAIN MODEL_FALLBACK_MAP)

\* C7 (as claimed): a dispatch against a pool that is empty or all invalid
\* surfaces NoAccountsError.
C7_NoAccountsErrorSurfaced ==
    (pc = "done" /\ hist.unusable) => outcome.kind = "AntigravityNoAccountsError"

\* C8 (as claimed): when acquiring a token fails with InvalidCredentialsError
\* the dispatcher marks the account invalid and continues; it neither marks it
\* rate-limited nor aborts the dispatch with that error.
C8_InvalidCredentialsInvalidates ==
    (hist.failed # <<>> /\ pc # "except")
        => /\ is_account_invalid(AcctOf(hist.failed))
           /\ outcome.kind # "AntigravityInvalidCredentialsError"
           /\ DOMAIN rate_limits = hist.failed_keys

\* C9 (as claimed): no save writes is_invalid or invalid_reason into the
\* persisted accounts document.
C9_InvalidFlagNotPersisted ==
    \A i \in 1..Len(accounts_file) :
        accounts_file[i].is_invalid = Absent /\ accounts_file[i].invalid_reason = Absent

\* C10 (as claimed): whenever the store is non-empty the selector index lies
\* in [0, account_count).
C10_IndexAlwaysInRange ==
    accounts # <<>> => current_index \in 0..(Len(accounts) - 1)

\* C10 (amended): the index is never negative, and on a non-empty store it
\* lies in [0, account_count) right after current_sticky, after pick_sticky
\* and after a pick_next that returns an account, which is then the account
\* at the index.
C10_IndexInRangeAfterAccess ==
    /\ current_index >= 0
    /\ ( /\ accounts # <<>>
         /\ \/ selRet.op \in { "current_sticky", "pick_sticky" }
            \/ selRet.op = "pick_next" /\ selRet.account # NoAccount )
       => /\ current_index \in 0..(Len(accounts) - 1)
          /\ selRet.account # NoAccount
                => accounts[current_index + 1].email = selRet.account.email

\* current_sticky found the index past the end of a non-empty store, as a
\* removal had left it, and brought it back
C10_Witness ==
    /\ selRet.op = "current_sticky"
    /\ accounts # <<>>
    /\ selRet.from >= Len(accounts)
    /\ current_index = 0

\* C11: after set(email, t, ttl) at time s with no later set or clear for the
\* email, get(email) returns t while now < s + ttl - 60 and nil from then on;
\* the cache never returns a token within 60 seconds of its stated expiry.
C11_TokenServedUntilSixtySecondsBeforeExpiry ==
    hist.got.email # <<>> =>
        LET e == hist.got.email
            live == /\ e \in DOMAIN hist.tokens
                    /\ now < hist.tokens[e].set_time + (hist.tokens[e].expires_in - 60) * 1000
        IN  /\ live => hist.got.token = hist.tokens[e].access_token
            /\ ~live => hist.got.token = NoneStr

\* a get made exactly 60 seconds before the stated expiry of a token that
\* is still in the cache, which returned nil
C11_Witness ==
    /\ hist.got.email \in DOMAIN hist.tokens
    /\ hist.got.email \in DOMAIN token_cache
    /\ now = hist.tokens[hist.got.email].set_time
               + (hist.tokens[hist.got.email].expires_in - 60) * 1000
    /\ hist.got.token = NoneStr

\* the emails of the accounts of the store
StoredEmails == { accounts[i].email : i \in 1..Len(accounts) }

\* C12 (as claimed): n consecutive pick_next calls on a list of n accounts,
\* with no state change in between, return every account at least once.
C12_RunVisitsEveryAccount ==
    (Len(accounts) > 0 /\ hist.run = Len(accounts)) => hist.visited = StoredEmails

\* C12 (amended): n consecutive pick_next calls on a list of n accounts, with
\* no state change in between, return every account that is valid and not
\* rate-limited for the model at least once, and no other account.
C12_RunVisitsEveryAvailableAccount ==
    (Len(accounts) > 0 /\ hist.run = Len(accounts))
        => hist.visited =
             { accounts[i].email :
                 i \in get_available_accounts(accounts, rate_limits, hist.run_model, now) }

\* a full run over a pool with more than one available account and one that
\* is not available
C12_Witness ==
    /\ Len(accounts) > 1
    /\ hist.run = Len(accounts)
    /\ hist.visited # StoredEmails
    /\ hist.visited # {}

\* C13: a ledger entry whose reset_time is not after now is equivalent to no
\* entry: is_limited, is_all_rate_limited, min_wait_ms, should_wait_for_current,
\* current_sticky, pick_sticky and pick_next give the same results on the
\* ledger and on the ledger after sweep_expired.
C13_ExpiredEntryIsAbsence ==
    LET swept == clear_expired_limits(rate_limits, now)
    IN  \A m \in ManagerModels :
          /\ \A i \in 1..Len(accounts) :
                is_account_rate_limited(rate_limits, accounts[i], m, now)
                  = is_account_rate_limited(swept, accounts[i], m, now)
          /\ is_all_rate_limited(accounts, rate_limits, m, now)
                = is_all_rate_limited(accounts, swept, m, now)
          /\ get_min_wait_time_ms(rate_limits, m, now) = get_min_wait_time_ms(swept, m, now)
          /\ should_wait_for_current_account(accounts, rate_limits, current_index, m, now)
                = should_wait_for_current_account(accounts, swept, current_index, m, now)
          /\ get_current_sticky_account(accounts, rate_limits, current_index, m, now)
                = get_current_sticky_account(accounts, swept, current_index, m, now)
          /\ pick_sticky_account(accounts, rate_limits, current_index, m, now)
                = pick_sticky_account(accounts, swept, current_index, m, now)
          /\ pick_next(accounts, rate_limits, current_index, m, now)
                = pick_next(accounts, swept, current_index, m, now)

\* a ledger holding an entry that resets exactly now next to one that is
\* still in the future, so that the sweep removes the one and keeps the other
C13_Witness ==
    /\ \E k \in DOMAIN rate_limits : rate_limits[k].reset_time = now
    /\ \E k \in DOMAIN rate_limits : rate_limits[k].reset_time > now
    /\ Len(accounts) > 1

\* C14 (as claimed): a sweep running concurrently with a mark or with another
\* sweep never deletes an entry whose reset_time is in the future and never
\* fails, and once the operations have completed each key holds the value
\* written by the most recent mark.
C14_LedgerOperationsAtomic ==
    /\ hist.lost = {}
    /\ \A w \in Threads : threads[w].pc # "failed"
    /\ (\A w \in Threads : threads[w].pc \in { "idle", "done" })
          => \A k \in DOMAIN lastMark :
                lastMark[k] > now
                  => k \in DOMAIN rate_limits /\ rate_limits[k].reset_time = lastMark[k]

\* C15 (as claimed): a reader of the accounts file sees the complete previous
\* document or the complete new one at every instant of a save, never an
\* empty or partially written file.
C15_SaveAtomicForReaders ==
    disk.loaded.seen \in { "none", "document" }

\* no two accounts of the list have the same email
UniqueEmails(accs) ==
    \A i, j \in 1..Len(accs) : accs[i].email = accs[j].email => i = j

\* C16: account emails are unique within the store after any sequence of
\* add-account upserts (interactive flow or callback endpoint) and removals;
\* adding an email that is already stored updates that account's
\* refresh_token and project_id in place.
C16_EmailsUniqueAndUpsertInPlace ==
    [][ /\ UniqueEmails(accounts')
        /\ UniqueEmails(accounts_file')
        /\ selRet'.op = "add_account" =>
              LET added == selRet'.account
                  i == IndexOfEmail(accounts, added.email)
              IN  IF i # 0
                  THEN /\ Len(accounts') = Len(accounts)
                       /\ accounts'[i].email = added.email
                       /\ accounts'[i].refresh_token = added.refresh_token
                       /\ accounts'[i].project_id = added.project_id
                       /\ \A j \in 1..Len(accounts) : j # i => accounts'[j] = accounts[j]
                  ELSE accounts' = Append(accounts, added)
      ]_vars

\* an add of the email of the first of two stored accounts has just replaced
\* its refresh token
C16_Witness ==
    /\ selRet.op = "add_account"
    /\ Len(accounts) = 2
    /\ selRet.account.email = accounts[1].email
    /\ accounts[1].refresh_token = "rt-2"
    /\ UniqueEmails(accounts)

\* C17: when pick_sticky returns (nil, wait) with 0 < wait <=
\* MAX_WAIT_BEFORE_ERROR_MS the dispatcher sleeps for wait, sweeps the ledger
\* and retries the same current account; its limit has then elapsed, and when
\* Upstream answers 2xx the dispatch succeeds with that account and the model
\* of the call, and no selection error is raised.
C17_StickyWaitRetriesCurrentAccount ==
    hist.waited # NoWait =>
        /\ pc = "sleep_sticky" =>
              /\ selRet.op = "pick_sticky" /\ selRet.account = NoAccount
              /\ wait_ms = selRet.wait_ms
              /\ hist.waited.wake = now + wait_ms
        /\ pc \in { "check", "auth", "project", "post" } =>
              /\ now >= hist.waited.wake
              /\ account = hist.waited.email
              /\ accounts[current_index + 1].email = account
              /\ ~is_account_rate_limited(rate_limits, AcctOf(account), model, now)
        /\ pc = "check" =>
              /\ now = hist.waited.wake
              /\ \A k \in DOMAIN rate_limits : rate_limits[k].reset_time > now
        /\ pc = "done" =>
              /\ outcome.kind \notin { "AntigravityQuotaExhaustedError",
                                        "AntigravityNoAccountsError", "RecursionError",
                                        "Max retries exceeded" }
              /\ outcome.kind = "ok" =>
                    /\ outcome.email = hist.waited.email
                    /\ outcome.model = model
                    /\ depth = 0 => outcome.model = hist.requested

\* a dispatch that slept for its current account and then succeeded with it
C17_Witness ==
    /\ hist.waited # NoWait
    /\ pc = "done"
    /\ outcome.kind = "ok"
    /\ outcome.email = hist.waited.email
    /\ now >= hist.waited.wake
    /\ Len(accounts) > 1

\* C18: within one attempt, when an endpoint answers 5xx and a later endpoint
\* of the fallback list answers 2xx, the dispatch returns that response with
\* the same account, has slept 1 second once per 5xx endpoint, and has left
\* the ledger, the invalid flags and the selector index unchanged.
C18_ServerErrorThenSuccessNextEndpoint ==
    (pc = "done" /\ outcome.kind = "ok" /\ hist.sent.n5xx > 0) =>
        /\ outcome.email = hist.sent.account
        /\ account = hist.sent.account
        /\ now = hist.sent.now + 1000 * hist.sent.n5xx
        /\ rate_limits = hist.sent.rate_limits
        /\ [ j \in 1..Len(accounts) |-> accounts[j].is_invalid ] = hist.sent.invalid
        /\ current_index = hist.sent.current_index

\* the first endpoint answered 5xx and the second one 2xx, with a ledger
\* that is not empty
C18_Witness ==
    /\ pc = "done"
    /\ outcome.kind = "ok"
    /\ hist.sent.n5xx = 1
    /\ endpoint = 2
    /\ rate_limits # <<>>

\* C19: sticky selection.  When the current account is valid and unlimited
\* for the model, a dispatch uses it without advancing the selector index:
\* consecutive successful dispatches with no intervening ledger or validity
\* change are all served by the same account, make no ledger mutation, and
\* leave that account's access token in the token cache.
C19_ConsecutiveSuccessesSameAccount ==
    ( /\ pc = "done" /\ outcome.kind = "ok"
      /\ hist.prev.email # <<>> /\ hist.prev.sticky
      /\ rate_limits = hist.prev.rate_limits
      /\ [ j \in 1..Len(accounts) |-> accounts[j].is_invalid ] = hist.prev.invalid ) =>
        /\ outcome.email = hist.prev.email
        /\ current_index = hist.prev.current_index
        /\ outcome.email \in DOMAIN token_cache

\* C20: if Upstream answers 401 at every endpoint for the selected account,
\* the outcome is auth-classified: the dispatcher marks that account invalid
\* and its next attempt uses a different account.
C20_Always401InvalidatesAndRotates ==
    ( /\ pc = "select"
      /\ hist.sent.n401 = Len(ANTIGRAVITY_ENDPOINT_FALLBACKS) ) =>
        /\ is_account_invalid(AcctOf(hist.sent.account))
        /\ attempt < max_attempts =>
              pick_sticky_account(accounts, rate_limits, current_index, model,
                                  now).account.email # hist.sent.account

\* C21: an OAuth authorization code is accepted only when the callback's
\* state equals a state issued for a still-pending authorization.  The
\* callback listener never returns a code whose state differs from the
\* expected one, and the callback endpoint never exchanges a code for an
\* unknown or already consumed state; in both cases the account store and
\* the token cache are left unchanged.
C21_CodeAcceptedOnlyForPendingState ==
    /\ oauth.listener.returned # NoneStr =>
          oauth.listener.received_state = oauth.listener.expected_state
    /\ (oauth.last.flow # "none" /\ ~oauth.last.known) =>
          ~oauth.last.exchanged /\ ~oauth.last.changed

\* the callback endpoint has just been called with a code and a state that an
\* earlier callback had consumed, after the listener had seen a wrong state
C21_Witness ==
    /\ oauth.last.flow = "endpoint"
    /\ oauth.last.code # NoneStr /\ oauth.last.error = NoneStr
    /\ oauth.last.state \in oauth.consumed
    /\ ~oauth.last.known
    /\ oauth.listener.pc = "raised"
    /\ oauth.listener.authorization_code # NoneStr
    /\ oauth.listener.received_state \notin { NoneStr, oauth.listener.expected_state }

\* C22: a pending OAuth state lives only from authorization-URL generation
\* until its callback arrives or its timeout elapses.  Every pending state
\* created by an auth start is eventually removed, whether by a callback for
\* that state (successful or carrying an error) or by the timeout when no
\* callback arrives.
C22_PendingStateEventuallyRemoved ==
    \A s \in OAuthStatePool :
        (s \in DOMAIN oauth.pending) ~> (s \notin DOMAIN oauth.pending)

\* how many positions after index idx the i-th account of a list of n comes
\* in cyclic order (n for the account at idx itself)
CyclicDistance(idx, i, n) == ((i - 2 - idx + 2 * n) % n) + 1

\* C23: pick_next(model) returns nil iff every account is invalid or limited
\* for the model.  When it returns nil the selector index equals its value
\* before the call; when it returns an account, that account is the first
\* valid-and-unlimited one in cyclic order after the previous index and the
\* index points at it.
C23_PickNextFirstAvailableInCyclicOrder ==
    \A m \in ManagerModels :
        LET r == pick_next(accounts, rate_limits, current_index, m, now)
            n == Len(accounts)
            usable == { i \in 1..n : ~is_account_invalid(accounts[i])
                                      /\ ~is_account_rate_limited(rate_limits, accounts[i], m, now) }
        IN  /\ r.account = NoAccount <=> usable = {}
            /\ r.account = NoAccount => r.index = current_index
            /\ r.account # NoAccount =>
                  /\ r.index + 1 \in usable
                  /\ accounts[r.index + 1] = r.account
                  /\ \A i \in usable :
                        CyclicDistance(current_index, r.index + 1, n)
                            <= CyclicDistance(current_index, i, n)

\* pick_next has just passed over an account that is not usable and come
\* back to the account it started from
C23_Witness ==
    /\ Len(accounts) = 2
    /\ selRet.op = "pick_next"
    /\ selRet.account # NoAccount
    /\ selRet.from = current_index
    /\ accounts[current_index + 1] = selRet.account
    /\ \E i \in 1..2 : is_account_invalid(accounts[i])
                         \/ is_account_rate_limited(rate_limits, accounts[i],
                                                    M_GEMINI_3_PRO_HIGH, now)
    /\ pick_next(accounts, rate_limits, selRet.from, M_GEMINI_3_PRO_HIGH, now).account
          = selRet.account

\* C24 (as claimed): pick_sticky(model) returns (current, 0) when the current account is
\* valid and unlimited; otherwise, when the current account is valid and its
\* residual wait (the larger of its per-model and per-account waits) is at
\* most MAX_WAIT_BEFORE_ERROR_MS / 2 = 60000 ms, it returns (nil, wait) with
\* wait > 0 and leaves the index unchanged; otherwise it returns
\* (pick_next(model), 0).
C24_PickStickyThreeCases ==
    \A m \in ManagerModels :
        LET r == pick_sticky_account(accounts, rate_limits, current_index, m, now)
            nxt == pick_next(accounts, rate_limits, current_index, m, now)
            has == current_index < Len(accounts)
            cur == IF has THEN accounts[current_index + 1] ELSE NoAccount
            wait == ResidualWait(rate_limits, cur.email, m, now)
        IN  IF has /\ ~is_account_invalid(cur) /\ wait = 0
            THEN r = [ account |-> cur, wait_ms |-> 0, index |-> current_index ]
            ELSE IF has /\ ~is_account_invalid(cur) /\ wait <= 60000
            THEN /\ wait > 0
                 /\ r = [ account |-> NoAccount, wait_ms |-> wait, index |-> current_index ]
            ELSE r = [ account |-> nxt.account, wait_ms |-> 0, index |-> nxt.index ]

\* C24 (amended): pick_sticky(model) first brings an index that lies beyond
\* the end of a non-empty list back to 0.  With the account at that index as the
\* current one, it returns (current, 0) when the current account is valid and
\* unlimited; otherwise, when the current account is valid and its residual
\* wait is at most MAX_WAIT_BEFORE_ERROR_MS / 2 = 60000 ms, it returns
\* (nil, wait) with wait > 0 and leaves the index there; otherwise it returns
\* (pick_next(model), 0), pick_next starting from that index.
C24_PickStickyThreeCasesFromResetIndex ==
    \A m \in ManagerModels :
        LET r == pick_sticky_account(accounts, rate_limits, current_index, m, now)
            idx == IF accounts # <<>> /\ current_index >= Len(accounts)
                   THEN 0 ELSE current_index
            nxt == pick_next(accounts, rate_limits, idx, m, now)
            has == Len(accounts) > 0
            cur == IF has THEN accounts[idx + 1] ELSE NoAccount
            wait == ResidualWait(rate_limits, cur.email, m, now)
        IN  IF has /\ ~is_account_invalid(cur) /\ wait = 0
            THEN r = [ account |-> cur, wait_ms |-> 0, index |-> idx ]
            ELSE IF has /\ ~is_account_invalid(cur) /\ wait <= 60000
            THEN /\ wait > 0
                 /\ r = [ account |-> NoAccount, wait_ms |-> wait, index |-> idx ]
            ELSE r = [ account |-> nxt.account, wait_ms |-> 0, index |-> nxt.index ]

\* pick_sticky has just told its caller to sleep the 60000 ms that the current
\* account still has to wait, while another account was free
C24_Witness ==
    /\ Len(accounts) = 2
    /\ selRet.op = "pick_sticky"
    /\ selRet.account = NoAccount
    /\ selRet.wait_ms = 60000
    /\ selRet.from = current_index
    /\ ResidualWait(rate_limits, accounts[current_index + 1].email, M_GEMINI_3_PRO_HIGH, now)
          = 60000
    /\ pick_next(accounts, rate_limits, current_index, M_GEMINI_3_PRO_HIGH, now).account
          # NoAccount

\* C25: mark(email, reset_ms, model) sets the entry for its key to
\* reset_time = now + reset_ms for every non-nil reset_ms (including 0) and to
\* now + 60000 only when reset_ms is nil; it replaces any previous entry for
\* that key and changes no other key.
C25_MarkUsesGivenResetUnlessNil ==
    [][ \A e \in Emails, r \in ResetChoices, m \in ManagerModels :
          MarkRateLimited(e, r, m) =>
            LET key == get_rate_limit_key(e, m)
            IN  /\ DOMAIN rate_limits' = DOMAIN rate_limits \cup { key }
                /\ rate_limits'[key].reset_time = now + (IF r = NoneMs THEN 60000 ELSE r)
                /\ \A k \in DOMAIN rate_limits \ { key } : rate_limits'[k] = rate_limits[k]
      ]_vars

\* the smallest positive remaining wait over the entries of a set of keys
MinPositiveWait(rl, keys, t) ==
    LET waits == { rl[k].reset_time - t : k \in { x \in keys : rl[x].reset_time > t } }
    IN  IF waits = {} THEN 0 ELSE SetMin(waits)

\* C26: min_wait_ms(model) equals the smallest positive remaining wait over
\* exactly the entries recorded for that model and the entries recorded with
\* no model; an entry recorded for any other model id never contributes; it
\* returns 0 when no such entry has a positive remaining wait.
C26_MinWaitOverModelAndAccountEntries ==
    \A m \in MinWaitModels :
        /\ get_min_wait_time_ms(rate_limits, m, now)
             = MinPositiveWait(rate_limits,
                               { k \in DOMAIN rate_limits :
                                   rate_limits[k].model_id \in { m, <<>> } }, now)
        /\ hist.min_wait.model = m =>
             hist.min_wait.wait
               = MinPositiveWait(rate_limits,
                                 { k \in DOMAIN rate_limits :
                                     rate_limits[k].model_id \in { m, <<>> } }, now)

\* C27 (as claimed): when a model filter is supplied, get_min_wait_time_ms
\* excludes per-account (non-model) entries: an entry stored under the bare
\* email key does not contribute to min_wait_ms(model).
C27_AccountEntriesExcluded ==
    \A m \in MinWaitModels :
        get_min_wait_time_ms(rate_limits, m, now)
          = get_min_wait_time_ms([ k \in DOMAIN rate_limits \ Emails |-> rate_limits[k] ], m, now)

\* C27 (amended): when a model filter is supplied, get_min_wait_time_ms
\* includes the per-account entries: an entry stored under the bare email key
\* whose reset_time is in the future makes min_wait_ms(model) positive and at
\* most that entry's remaining wait.
C27_AccountEntriesIncluded ==
    \A m \in MinWaitModels, e \in Emails :
        (e \in DOMAIN rate_limits /\ rate_limits[e].reset_time > now) =>
            /\ get_min_wait_time_ms(rate_limits, m, now) > 0
            /\ get_min_wait_time_ms(rate_limits, m, now) <= rate_limits[e].reset_time - now
            /\ hist.min_wait.model = m =>
                  /\ hist.min_wait.wait > 0
                  /\ hist.min_wait.wait <= rate_limits[e].reset_time - now

\* get_min_wait_time_ms for a model has just returned the wait of an entry
\* under the bare email key, the entry of the model having longer to wait
C27_Witness ==
    \E e \in Emails :
        LET k == get_rate_limit_key(e, M_CLAUDE_SONNET)
        IN  /\ e \in DOMAIN rate_limits /\ k \in DOMAIN rate_limits
            /\ rate_limits[e].reset_time > now
            /\ rate_limits[k].reset_time > rate_limits[e].reset_time
            /\ hist.min_wait.model = M_CLAUDE_SONNET
            /\ hist.min_wait.wait = rate_limits[e].reset_time - now

\* C28: handling an Upstream 401 clears the token cache entry and the project
\* cache entry of exactly the attempted account's email; the cache entries of
\* every other email, the ledger, the invalid flags and the selector index are
\* unchanged by that step, and the dispatcher continues with the next endpoint.
C28_Handling401ClearsOnlyThatEmail ==
    [][ (pc = "post" /\ hist'.sent.n401 = hist.sent.n401 + 1) =>
          /\ DOMAIN token_cache' = DOMAIN token_cache \ { account }
          /\ DOMAIN project_cache' = DOMAIN project_cache \ { account }
          /\ \A e \in DOMAIN token_cache' : token_cache'[e] = token_cache[e]
          /\ \A e \in DOMAIN project_cache' : project_cache'[e] = project_cache[e]
          /\ UNCHANGED << rate_limits, current_index, account, attempt >>
          /\ [ j \in 1..Len(accounts') |-> accounts'[j].is_invalid ]
               = [ j \in 1..Len(accounts) |-> accounts[j].is_invalid ]
          /\ IF endpoint < Len(ANTIGRAVITY_ENDPOINT_FALLBACKS)
             THEN pc' = "post" /\ endpoint' = endpoint + 1
             ELSE pc' = "classify"
      ]_vars

\* the first endpoint has answered 401 to the second account's token while the
\* first account had a token and a project cached and a limit in the ledger
C28_Witness ==
    /\ pc = "post"
    /\ endpoint = 2
    /\ hist.sent.n401 = 1
    /\ account \notin DOMAIN token_cache
    /\ account \notin DOMAIN project_cache
    /\ \E e \in DOMAIN token_cache : e \in DOMAIN project_cache /\ e # account
    /\ rate_limits # <<>>

\* C29: a 401 forces fresh auth.  Within a dispatch, a bearer token that
\* Upstream rejected with 401 is never sent again; every request issued for
\* that account after the 401 (including the next endpoint of the same
\* attempt) carries a newly acquired access token.
C29_RejectedTokenNeverSentAgain ==
    ~hist.resent

\* C30: when the endpoint loop of an attempt ends with a last recorded error
\* that is neither a 429 nor auth-classified (5xx at every endpoint, or a 4xx
\* other than 401 and 429), the dispatcher surfaces the generic
\* AntigravityError of that attempt to the caller: it selects no other
\* account and makes no further attempt, and the ledger and the invalid
\* flags are unchanged.
C30_GenericErrorSurfacesWithoutRotation ==
    [][ (pc = "except" /\ last_error.cls = "AntigravityError") =>
          /\ pc' = "done"
          /\ outcome'.kind = "AntigravityError"
          /\ outcome'.email = account
          /\ UNCHANGED << current_index, rate_limits, attempt >>
          /\ [ j \in 1..Len(accounts') |-> accounts'[j].is_invalid ]
               = [ j \in 1..Len(accounts) |-> accounts[j].is_invalid ]
      ]_vars

\* C31: model fallback happens only when the requested model is exhausted.
\* Under any interleaving of concurrent dispatches, a dispatch re-enters with
\* the fallback model only if, at that moment, no account is valid and
\* unlimited for the model it was working on.
C31_FallbackOnlyWhenModelExhausted ==
    [][ (pc = "fallback" /\ pc' = "select" /\ depth' = depth + 1) =>
          get_available_accounts(accounts, rate_limits, model, now) = {}
      ]_vars

\* C33: when project discovery fails at every endpoint, the default project
\* id serves that request only.  It is not stored in the project cache and
\* not written to the account's project_id or to the accounts file, so a
\* later dispatch for the same account attempts discovery again.
C33_DefaultProjectNotKept ==
    /\ \A e \in DOMAIN project_cache : project_cache[e] # DEFAULT_PROJECT_ID
    /\ \A i \in 1..Len(accounts) : accounts[i].project_id # DEFAULT_PROJECT_ID
    /\ \A i \in 1..Len(accounts_file) : accounts_file[i].project_id # DEFAULT_PROJECT_ID

\* the ledger keys an action wrote: new ones and ones whose entry changed
WrittenKeys ==
    { k \in DOMAIN rate_limits' : k \notin DOMAIN rate_limits \/ rate_limits'[k] # rate_limits[k] }

\* C32: every ledger write of a dispatch uses exactly the per-model key
\* email:model of the account being attempted and the model of the current
\* pass.  A dispatch never writes a per-account (bare email) key nor a key of
\* another account or another model, so a 429 for model M never makes the
\* account limited for a different model.
C32_DispatchWritesOnlyItsModelKey ==
    [][ /\ \A k \in WrittenKeys :
              /\ account # <<>> /\ model # <<>>
              /\ k = account \o << ":" >> \o model
        /\ WrittenKeys # {} =>
              \A i \in 1..Len(accounts), m \in (ANTIGRAVITY_MODELS \cup { <<>> }) \ { model } :
                  is_account_rate_limited(rate_limits', accounts[i], m, now)
                     => is_account_rate_limited(rate_limits, accounts[i], m, now)
      ]_vars

C32_Witness ==
    /\ pc = "select"
    /\ last_error.kind = "429"
    /\ account # <<>>
    /\ DOMAIN rate_limits = { account \o << ":" >> \o model }
    /\ is_account_rate_limited(rate_limits, AcctOf(account), model, now)
    /\ ~is_account_rate_limited(rate_limits, AcctOf(account), M_GEMINI_3_FLASH, now)

\* C34: remove(email) returns true iff an account with that email was stored.
\* On true it deletes exactly that account and that email's token cache and
\* project cache entries; all other accounts and cache entries, and every
\* ledger entry (those keyed by the removed email included), are unchanged.
\* On false nothing changes and nothing is saved.
C34_RemoveDeletesExactlyThatAccount ==
    [][ \A e \in Emails : RemoveAccount(e) =>
          LET stored == { i \in 1..Len(accounts) : accounts[i].email = e }
              returned == selRet'.op = "remove_account"
          IN  /\ returned <=> stored # {}
              /\ IF returned
                 THEN /\ \E i \in stored :
                           accounts' = SubSeq(accounts, 1, i - 1)
                                         \o SubSeq(accounts, i + 1, Len(accounts))
                      /\ accounts_file' = save_accounts(accounts')
                      /\ DOMAIN token_cache' = DOMAIN token_cache \ { e }
                      /\ \A k \in DOMAIN token_cache' : token_cache'[k] = token_cache[k]
                      /\ DOMAIN project_cache' = DOMAIN project_cache \ { e }
                      /\ \A k \in DOMAIN project_cache' : project_cache'[k] = project_cache[k]
                      /\ UNCHANGED rate_limits
                 ELSE UNCHANGED << accounts, accounts_file, token_cache, project_cache,
                                   rate_limits >>
      ]_vars

C34_Witness ==
    /\ selRet.op = "remove_account"
    /\ Len(accounts) = 1
    /\ accounts[1].email \in DOMAIN token_cache
    /\ accounts[1].email \in DOMAIN project_cache
    /\ \E e \in Emails :
          /\ e # accounts[1].email
          /\ e \notin DOMAIN token_cache
          /\ e \notin DOMAIN project_cache
          /\ e \in DOMAIN rate_limits
          /\ (e \o << ":" >> \o M_GEMINI_3_PRO_HIGH) \in DOMAIN rate_limits

\* C36: if no callback arrives within the listener's timeout, the add-account
\* flow fails with the timeout outcome ('OAuth callback timeout') and not
\* with an OAuth-error or state-mismatch (CSRF) error; the account store and
\* the token cache are unchanged.
C36_NoCallbackEndsAsTimeout ==
    [][ (oauth.listener.pc = "serving" /\ oauth'.listener.pc \in { "returned", "raised" }) =>
          /\ oauth'.listener.message = "OAuth callback timeout"
          /\ UNCHANGED << accounts, accounts_file, token_cache >>
      ]_vars

\* the number a part of a text stands for
PartValue(part) == int(part[1], 1, Len(part[1]) + 1)

\* a part with digits and the given letter, in either case
IsPart(parts, k, letter) ==
    /\ k <= Len(parts)
    /\ parts[k][1] # <<>>
    /\ parts[k][2] \in { letter, CHOOSE u \in { "H", "M", "S" } : lower(u) = letter }

\* what the forms NhNmNs, NhNm, Nh, NmNs, Nm, Ns, in that order, give for a
\* text made of the parts
FormMs(parts) ==
    IF IsPart(parts, 1, "h")
    THEN PartValue(parts[1]) * 3600000
           + (IF IsPart(parts, 2, "m")
              THEN PartValue(parts[2]) * 60000
                     + (IF IsPart(parts, 3, "s") THEN PartValue(parts[3]) * 1000 ELSE 0)
              ELSE 0)
    ELSE IF IsPart(parts, 1, "m")
    THEN PartValue(parts[1]) * 60000
           + (IF IsPart(parts, 2, "s") THEN PartValue(parts[2]) * 1000 ELSE 0)
    ELSE IF IsPart(parts, 1, "s") THEN PartValue(parts[1]) * 1000
    ELSE NoneMs

\* C37: for a text containing 'reset after' followed by one of the forms
\* NhNmNs, NhNm, Nh, NmNs, Nm, Ns (case-insensitive) the reset-time parser
\* returns h*3600000 + m*60000 + s*1000 for the components present, trying the
\* forms in that order; for a text with no such form it returns nil, which
\* the ledger turns into a cooldown of 60000 ms.
C37_ParsesResetForms ==
    (call.fn = "parse_reset_time_from_error" /\ call.returned) =>
        /\ call.ret = IF call.arg.head = <<>> THEN NoneMs ELSE FormMs(call.arg.parts)
        /\ call.ret = NoneMs =>
              mark_rate_limited(<<>>, << "a@x" >>, call.ret, M_GEMINI_3_PRO_HIGH, 0)
                  [ << "a@x", ":" >> \o M_GEMINI_3_PRO_HIGH ].reset_time = 60000

C37_Witness ==
    /\ call.fn = "parse_reset_time_from_error"
    /\ call.returned
    /\ call.arg.text = << "x", "Reset After ", "1", "0", "h", "0", "7", "m", "5", "S" >>
    /\ call.ret = 36425000

\* C38: the schema sanitizer is idempotent: for every JSON Schema s,
\* sanitize(sanitize(s)) = sanitize(s).
C38_SanitizeIdempotent ==
    (call.fn = "_sanitize_schema" /\ call.returned) =>
        sanitize_schema(call.ret) = call.ret

C38_Witness ==
    /\ call.fn = "_sanitize_schema"
    /\ call.returned
    /\ IsDict(call.arg)
    /\ DOMAIN call.arg.dict = { "properties", "$ref" }
    /\ IsDict(call.arg.dict["properties"])
    /\ DOMAIN call.arg.dict["properties"].dict = { "$ref" }
    /\ call.ret = JDict([ k \in { "properties", "type" } |->
                            IF k = "type" THEN JStr("object")
                            ELSE JDict([ n \in { "$ref" } |->
                                           JDict([ t \in { "type" } |-> JStr("object") ]) ]) ])

\* the texts of the system messages of a request, in order
RECURSIVE SystemTexts(_)
SystemTexts(messages) ==
    IF messages = << >> THEN << >>
    ELSE LET msg == Head(messages)
             own == IF msg.role # "system" THEN << >>
                    ELSE IF IsStr(msg.content) THEN << msg.content.str >>
                    ELSE LET texts == SelectSeq(msg.content.list, LAMBDA c : c.type = "text")
                         IN  [ k \in 1..Len(texts) |-> texts[k].text ]
         IN  own \o SystemTexts(Tail(messages))

\* C39: all system messages of a request collapse into one systemInstruction
\* whose parts contain the text of every system message in order; no system
\* message's text is lost when a request contains several system messages.
C39_SystemMessagesConcatenated ==
    (call.fn = "_convert_openai_messages_to_google" /\ call.returned) =>
        [ k \in 1..Len(call.ret.system_instruction.parts) |->
            call.ret.system_instruction.parts[k].text ] = SystemTexts(call.arg)

\* C40: the finish_reason of a translated response is tool_calls whenever
\* Upstream's finishReason is TOOL_USE or the response contains at least one
\* tool call; otherwise STOP maps to stop, MAX_TOKENS maps to length, and any
\* other value maps to stop.
C40_ToolCallsFinishReason ==
    (call.fn = "_convert_google_response_to_openai" /\ call.returned) =>
        call.ret.finish_reason =
            IF call.arg.finishReason = "TOOL_USE" \/ call.ret.tool_calls # << >>
            THEN "tool_calls"
            ELSE IF call.arg.finishReason = "MAX_TOKENS" THEN "length"
            ELSE "stop"

\* C35: progress.  In sequential execution, if at least one account is valid
\* and unlimited for the requested model, a token can be obtained for every
\* account and Upstream answers 2xx to every request, then a dispatch
\* eventually returns a response for the requested model: it raises neither
\* QuotaExhaustedError, NoAccountsError nor 'Max retries exceeded' and does
\* not switch to a fallback model.
C35_DispatchReturnsForRequestedModel ==
    \A d \in 1..MaxDispatches :
        ( /\ hist.dispatches = d
          /\ pc = "select" /\ attempt = 0 /\ depth = 0
          /\ get_available_accounts(accounts, rate_limits, model, now) # {} )
        ~> ( /\ hist.dispatches = d
             /\ pc = "done"
             /\ outcome.kind = "ok"
             /\ outcome.model = hist.requested
             /\ depth = 0 )

C35_Witness ==
    /\ pc = "done"
    /\ outcome.kind = "ok"
    /\ outcome.model = hist.requested
    /\ depth = 0
    /\ current_index = 1
    /\ Len(accounts) = 2
    /\ is_account_invalid(accounts[1])
    /\ outcome.email = accounts[2].email
    /\ hist.sent.rate_limits # <<>>

====
